---- MODULE Spec2Model ----
(***************************************************************************)
(* A model of the Go call-graph pipeline of code-pathfinder's sast-engine: *)
(* the type inference engine (function scopes, return-type table, stdlib   *)
(* fallback), Pass 2b variable-binding extraction, toolchain version       *)
(* detection, stdlib loader initialisation and call-target resolution.     *)
(*                                                                         *)
(* Strings are modelled as sequences of tokens.  The tokens "*", "[]" and  *)
(* "." are the substrings the code searches for; every other token is an   *)
(* atom that contains none of them.  "net/http.Response" is                *)
(* <<"net/http", ".", "Response">>, "[]*File" is <<"[]", "*", "File">>.    *)
(***************************************************************************)
EXTENDS Integers, Sequences, FiniteSets, TLC

VARIABLES
    mode,           \* which part of the pipeline this behaviour exercises
    rawType,        \* normaliser input: raw return-type string
    importPath,     \* normaliser input: package of the function
    normaliser,     \* which of the two normaliser copies is applied
    once,           \* normalize(rawType, importPath)
    twice,          \* normalize(once, importPath)
    normPc,         \* "start" | "once" | "twice"
    scope,          \* a GoFunctionScope exercised on its own
    added,          \* history: the non-nil bindings passed to AddVariable, in order
    addCalls,       \* number of AddVariable calls made on scope
    reg,            \* the GoModuleRegistry (core.GoModuleRegistry)
    engineHasRegistry, \* FALSE when the engine was built with a nil registry
    ReturnTypes,    \* GoTypeInferenceEngine.ReturnTypes: function FQN -> TypeInfo
    Scopes,         \* GoTypeInferenceEngine.Scopes: function FQN -> scope
    registered,     \* history: FQN -> the TypeInfo last passed (non-nil) to AddReturnType
    lastFQN,        \* argument of the latest GetReturnType call
    lastResult,     \* its result [info, ok]
    queryTick,      \* flips at every GetReturnType call
    processed,      \* Pass 2b: the files ExtractGoVariableAssignments has processed, in order
    project,        \* the project root: go.mod, .go-version and go.work
    detected,       \* result of the latest DetectGoVersion call
    versionPc,      \* "start" | "detected" | "initialised"
    requested,      \* URL of the manifest the latest loader init asked for
    loadOutcome,    \* how the latest manifest fetch ended
    regBefore,      \* history: the registry as the latest loader init found it
    initCalls,      \* number of InitGoStdlibLoader calls made
    CallSites,      \* CallGraph.CallSites: caller FQN -> its call sites, in order
    projectRoot,    \* the project BuildGoModuleRegistry is run on
    buildResult,    \* what BuildGoModuleRegistry returned: [registry, err]
    lastImport,     \* argument of the latest ClassifyImport call
    lastClass,      \* its result
    lastIsStdlib,   \* what isStdlibImport answered for it
    codeGraph,      \* the call sites of the code graph handed to the builder
    pending,        \* indices of codeGraph the builder has not processed yet
    Edges,          \* CallGraph.Edges: caller FQN -> callee FQNs
    ReverseEdges,   \* CallGraph.ReverseEdges: callee FQN -> caller FQNs
    Functions,      \* CallGraph.Functions: the FQNs that have a node
    lastTool,       \* the tool of the latest tools/call request
    lastFunction,   \* its function argument, as the FQN it resolved to
    response,       \* the entries of the tool result
    extracted,      \* history: the files Pass 2b has processed, with their syntax trees
    heap,           \* the objects behind the engine's pointers: address -> scope or TypeInfo
    pc,             \* extraction worker -> the step it is at
    frame,          \* extraction worker -> its locals: task index, scope pointer, slice read
    tasks,          \* extraction worker -> the engine calls its file gives rise to
    scopeMutex,     \* GoTypeInferenceEngine.scopeMutex: [writer, readers]
    typeMutex,      \* GoTypeInferenceEngine.typeMutex: [writer, readers]
    fatal,          \* TRUE once the runtime has thrown "concurrent map writes"
    callerMap,      \* the map GetAllScopes or GetAllReturnTypes handed to its caller
    snapshot        \* history: what the engine held after its latest own operation

normVars == <<rawType, importPath, normaliser, once, twice, normPc>>

scopeVars == <<scope, added, addCalls>>

engineVars == <<reg, engineHasRegistry, ReturnTypes, Scopes>>

queryVars == <<registered, lastFQN, lastResult, queryTick>>

versionVars ==
    <<project, detected, versionPc, requested, loadOutcome, regBefore, initCalls>>

registryVars == <<projectRoot, buildResult>>

importVars == <<lastImport, lastClass, lastIsStdlib>>

graphVars == <<codeGraph, pending, Edges, ReverseEdges, Functions>>

\* the call graph under construction and the parts that follow it
serverVars == <<lastTool, lastFunction, response>>

workerVars == <<heap, pc, frame, tasks, scopeMutex, typeMutex, fatal>>

copyVars == <<callerMap, snapshot>>

moreVars == <<graphVars, serverVars, extracted, workerVars, copyVars>>

vars ==
    <<mode, normVars, scopeVars, engineVars, queryVars, processed, versionVars,
      CallSites, registryVars, importVars, moreVars>>

\* what the actions of one part leave alone
notNorm ==
    <<mode, scopeVars, engineVars, queryVars, processed, versionVars, CallSites,
      registryVars, importVars,
      moreVars>>
notScope ==
    <<mode, normVars, engineVars, queryVars, processed, versionVars, CallSites,
      registryVars, importVars,
      moreVars>>
notEngine ==
    <<mode, normVars, scopeVars, processed, versionVars, CallSites,
      registryVars, importVars,
      moreVars>>
notPass2b ==
    <<mode, normVars, scopeVars, queryVars, versionVars, CallSites,
      registryVars, importVars,
      moreVars>>
notVersion ==
    <<mode, normVars, scopeVars, queryVars, processed, CallSites,
      registryVars, importVars,
      moreVars>>
notCall ==
    <<mode, normVars, scopeVars, queryVars, processed, versionVars, registryVars,
      importVars,
      moreVars>>
notRegistry ==
    <<mode, normVars, scopeVars, engineVars, queryVars, processed, versionVars,
      CallSites, importVars,
      moreVars>>
notGraph ==
    <<mode, normVars, scopeVars, engineVars, queryVars, processed, versionVars,
      registryVars, importVars, serverVars, extracted, workerVars, copyVars>>
notServer ==
    <<mode, normVars, scopeVars, engineVars, queryVars, processed, versionVars,
      CallSites, registryVars, importVars, graphVars, extracted, workerVars,
      copyVars>>
notRhs ==
    <<mode, normVars, scopeVars, queryVars, versionVars, CallSites,
      registryVars, importVars, graphVars, serverVars, workerVars, copyVars>>
notWorkers ==
    <<mode, normVars, scopeVars, reg, engineHasRegistry, queryVars, processed,
      versionVars, CallSites, registryVars, importVars, graphVars, serverVars,
      extracted, copyVars>>
notCopy ==
    <<mode, normVars, scopeVars, reg, engineHasRegistry, queryVars, processed,
      versionVars, CallSites, registryVars, importVars, graphVars, serverVars,
      extracted, pc, frame, tasks, scopeMutex, typeMutex, fatal>>
notImport ==
    <<mode, normVars, scopeVars, queryVars, processed, versionVars, registryVars,
      moreVars>>

----------------------------------------------------------------------------
(* String helpers (Go's strings package on token sequences)                *)

EmptyString == <<>>

\* strings.TrimPrefix(s, tok) for a one-token prefix
TrimPrefix(s, tok) == IF Len(s) > 0 /\ Head(s) = tok THEN Tail(s) ELSE s

\* strings.Contains(s, tok)
Contains(s, tok) == \E i \in 1..Len(s) : s[i] = tok

\* strings.LastIndex(s, tok): 0-based index of the last tok, -1 when absent
LastIndex(s, tok) ==
    IF Contains(s, tok)
    THEN (CHOOSE i \in 1..Len(s) :
            s[i] = tok /\ \A j \in (i+1)..Len(s) : s[j] # tok) - 1
    ELSE -1

SeqsUpTo(S, n) == UNION {[1..k -> S] : k \in 0..n}

\* a nil *GoVariableBinding / *TypeInfo / *GoFunctionScope
Nil == [nil |-> TRUE]

----------------------------------------------------------------------------
(* The state of the parts a behaviour does not exercise                    *)

NormIdle ==
    /\ rawType = EmptyString
    /\ importPath = EmptyString
    /\ normaliser = "none"
    /\ once = EmptyString
    /\ twice = EmptyString
    /\ normPc = "idle"

ScopeIdle ==
    /\ scope = [FunctionFQN |-> EmptyString, Variables |-> <<>>]
    /\ added = <<>>
    /\ addCalls = 0

EngineIdle ==
    /\ reg = Nil
    /\ engineHasRegistry = FALSE
    /\ ReturnTypes = <<>>
    /\ Scopes = <<>>

QueryIdle ==
    /\ registered = <<>>
    /\ lastFQN = EmptyString
    /\ lastResult = Nil
    /\ queryTick = FALSE

Pass2bIdle == processed = <<>>

VersionIdle ==
    /\ project = Nil
    /\ detected = EmptyString
    /\ versionPc = "idle"
    /\ requested = EmptyString
    /\ loadOutcome = "none"
    /\ regBefore = Nil
    /\ initCalls = 0

CallIdle == CallSites = <<>>

RegistryIdle ==
    /\ projectRoot = Nil
    /\ buildResult = Nil

ImportIdle ==
    /\ lastImport = EmptyString
    /\ lastClass = "none"
    /\ lastIsStdlib = FALSE

GraphIdle ==
    /\ codeGraph = <<>>
    /\ pending = {}
    /\ Edges = <<>>
    /\ ReverseEdges = <<>>
    /\ Functions = {}

ServerIdle ==
    /\ lastTool = "none"
    /\ lastFunction = EmptyString
    /\ response = <<>>

RhsIdle == extracted = {}

WorkersIdle ==
    /\ heap = <<>>
    /\ pc = <<>>
    /\ frame = <<>>
    /\ tasks = <<>>
    /\ scopeMutex = [writer |-> 0, readers |-> {}]
    /\ typeMutex = [writer |-> 0, readers |-> {}]
    /\ fatal = FALSE

CopyIdle ==
    /\ callerMap = <<>>
    /\ snapshot = <<>>

MoreIdle == GraphIdle /\ ServerIdle /\ RhsIdle /\ WorkersIdle /\ CopyIdle

----------------------------------------------------------------------------
(* Type normalisation                                                      *)

BuiltinTypeNames ==
    {"string", "int", "int8", "int16", "int32", "int64",
     "uint", "uint8", "uint16", "uint32", "uint64", "uintptr",
     "float32", "float64", "complex64", "complex128",
     "bool", "byte", "rune", "error"}

IsBuiltinTypeName(t) == Len(t) = 1 /\ t[1] \in BuiltinTypeNames

\* resolution.stdlibNormalizeType
stdlibNormalizeType(raw, path) ==
    LET t == TrimPrefix(TrimPrefix(raw, "*"), "[]")
    IN  IF t = EmptyString THEN EmptyString
        ELSE IF IsBuiltinTypeName(t) THEN <<"builtin", ".">> \o t
        ELSE IF Contains(t, ".") THEN t
        ELSE path \o <<".">> \o t

\* extraction.normalizeStdlibReturnType
normalizeStdlibReturnType(raw, path) ==
    LET t0 == raw
        t1 == TrimPrefix(t0, "*")
        t  == TrimPrefix(t1, "[]")
    IN  IF t = EmptyString THEN EmptyString
        ELSE IF IsBuiltinTypeName(t) THEN <<"builtin", ".">> \o t
        ELSE IF Contains(t, ".") THEN t
        ELSE path \o <<".">> \o t

Normalize(which, raw, path) ==
    IF which = "stdlibNormalizeType"
    THEN stdlibNormalizeType(raw, path)
    ELSE normalizeStdlibReturnType(raw, path)

\* Raw type strings as a manifest can carry them: up to MaxQualifiers
\* pointer/slice qualifiers in front of a (possibly qualified) type name.
MaxQualifiers == 2

Qualifiers == SeqsUpTo({"*", "[]"}, MaxQualifiers)

BaseTypes ==
    {EmptyString, <<"string">>, <<"error">>, <<"byte">>, <<"File">>,
     <<"io", ".", "Reader">>}

RawTypes == {q \o b : q \in Qualifiers, b \in BaseTypes}

ImportPaths == {<<"os">>, <<"net/http">>, <<"github", ".", "com/gin-gonic/gin">>}

NormInit ==
    /\ mode = "normalise"
    /\ rawType \in RawTypes
    /\ importPath \in ImportPaths
    /\ normaliser \in {"stdlibNormalizeType", "normalizeStdlibReturnType"}
    /\ once = EmptyString
    /\ twice = EmptyString
    /\ normPc = "start"
    /\ ScopeIdle
    /\ EngineIdle
    /\ QueryIdle
    /\ Pass2bIdle
    /\ VersionIdle
    /\ CallIdle
    /\ RegistryIdle
    /\ ImportIdle
    /\ MoreIdle

NormalizeOnce ==
    /\ normPc = "start"
    /\ once' = Normalize(normaliser, rawType, importPath)
    /\ normPc' = "once"
    /\ UNCHANGED <<rawType, importPath, normaliser, twice, notNorm>>

NormalizeTwice ==
    /\ normPc = "once"
    /\ twice' = Normalize(normaliser, once, importPath)
    /\ normPc' = "twice"
    /\ UNCHANGED <<rawType, importPath, normaliser, once, notNorm>>

NormNext == NormalizeOnce \/ NormalizeTwice

SpecNorm == NormInit /\ [][NormNext]_vars

\* C6: normalisation is idempotent: normalising a normalised type FQN again
\* (same import path) yields the same string, for every raw type string.
C6_NormalizeIdempotent == normPc = "twice" => twice = once

----------------------------------------------------------------------------
(* GoFunctionScope                                                         *)

\* Go map read: the zero value for a missing key
MapGet(m, k, zero) == IF k \in DOMAIN m THEN m[k] ELSE zero

\* Go map write m[k] = v
MapPut(m, k, v) == [x \in DOMAIN m \cup {k} |-> IF x = k THEN v ELSE m[x]]

EmptyMap == <<>>

\* resolution.NewGoFunctionScope
NewGoFunctionScope(functionFQN) ==
    [FunctionFQN |-> functionFQN, Variables |-> EmptyMap]

\* a plausible slip: the new binding replaces the list instead of extending it
AddVariableOverwrite(s, binding) ==
    IF binding = Nil THEN s
    ELSE [s EXCEPT !.Variables = MapPut(s.Variables, binding.VarName, <<binding>>)]

\* GoFunctionScope.AddVariable
AddVariable(s, binding) ==
    IF binding = Nil THEN s
    ELSE [s EXCEPT !.Variables =
            MapPut(s.Variables, binding.VarName,
                   Append(MapGet(s.Variables, binding.VarName, <<>>), binding))]

\* GoFunctionScope.GetVariable
GetVariable(s, varName) ==
    LET bindings == MapGet(s.Variables, varName, <<>>)
    IN  IF Len(bindings) = 0 THEN Nil ELSE bindings[Len(bindings)]

\* GoFunctionScope.HasVariable
HasVariable(s, varName) == Len(MapGet(s.Variables, varName, <<>>)) > 0

\* GoFunctionScope.GetAllBindings
GetAllBindings(s, varName) == MapGet(s.Variables, varName, <<>>)

TypeInfo(fqn, confidence, source) ==
    [TypeFQN |-> fqn, Confidence |-> confidence, Source |-> source]

\* bound on the number of AddVariable calls in one behaviour
MaxAdds == 3

ScopeVarNames == {"u", "v"}

ScopeBindings ==
    {[VarName |-> n,
      Type |-> TypeInfo(<<"pkg", ".", "User">>, 95, "declaration"),
      AssignedFrom |-> a,
      Location |-> [File |-> "handler.go", Line |-> l]] :
        n \in ScopeVarNames, a \in {"GetUser(1)", "NewUser()"}, l \in {10, 20}}

ScopeInit ==
    /\ mode = "scope"
    /\ scope = NewGoFunctionScope(<<"myapp", ".", "HandleRequest">>)
    /\ added = <<>>
    /\ addCalls = 0
    /\ NormIdle
    /\ EngineIdle
    /\ QueryIdle
    /\ Pass2bIdle
    /\ VersionIdle
    /\ CallIdle
    /\ RegistryIdle
    /\ ImportIdle
    /\ MoreIdle

AddVariableCall(binding) ==
    /\ mode = "scope"
    /\ addCalls < MaxAdds
    /\ scope' = AddVariable(scope, binding)
    /\ added' = IF binding = Nil THEN added ELSE Append(added, binding)
    /\ addCalls' = addCalls + 1
    /\ UNCHANGED notScope

ScopeNext == \E binding \in ScopeBindings \cup {Nil} : AddVariableCall(binding)

SpecScope == ScopeInit /\ [][ScopeNext]_vars

AddedWithName(n) == SelectSeq(added, LAMBDA b : b.VarName = n)

\* C4: for any sequence of AddVariable calls, GetAllBindings(n) is exactly the
\* non-nil bindings added with name n in the order added, GetVariable(n) is
\* the last of them (nil when there is none) and HasVariable(n) holds iff
\* there is one.
C4_ScopeAppendOnly ==
    mode = "scope" =>
        \A n \in ScopeVarNames \cup {"absent"} :
            LET hist == AddedWithName(n)
            IN  /\ GetAllBindings(scope, n) = hist
                /\ GetVariable(scope, n) =
                       (IF hist = <<>> THEN Nil ELSE hist[Len(hist)])
                /\ HasVariable(scope, n) <=> (hist # <<>>)

\* two bindings of one name were added (and a nil was passed in between or not)
C4_Witness ==
    /\ mode = "scope"
    /\ \E n \in ScopeVarNames :
          /\ Len(AddedWithName(n)) >= 2
          /\ AddedWithName(n)[1] # AddedWithName(n)[2]
    /\ addCalls > Len(added)

----------------------------------------------------------------------------
(* Stdlib loader (core.GoStdlibLoader) and the registry                    *)

\* A loaded manifest: the recognised import paths and, per <<path, name>>,
\* the function's ordered raw return types.
Loader(packages, functions) == [packages |-> packages, functions |-> functions]

\* GoStdlibLoader.ValidateStdlibImport
ValidateStdlibImport(loader, path) == path \in loader.packages

\* GoStdlibLoader.GetFunction: err == nil
HasFunction(loader, path, name) == <<path, name>> \in DOMAIN loader.functions

\* GoStdlibLoader.GetFunction: fn.Returns (each entry is ret.Type)
FunctionReturns(loader, path, name) == loader.functions[<<path, name>>]

\* core.NewGoModuleRegistry plus the fields a build fills in
Registry(modulePath, goVersion, dirToImport, importToDir, loader) ==
    [ModulePath |-> modulePath, GoVersion |-> goVersion,
     DirToImport |-> dirToImport, ImportToDir |-> importToDir,
     StdlibLoader |-> loader]

Fqn(path, name) == path \o <<".">> \o <<name>>

StdlibManifest ==
    Loader({<<"fmt">>, <<"os">>, <<"net/http">>},
           (<<<<"fmt">>, <<"Sprintf">>>>      :> << <<"string">> >>) @@
           (<<<<"fmt">>, <<"Println">>>>      :> << >>) @@
           (<<<<"net/http">>, <<"Get">>>>     :> << <<"*", "Response">>, <<"error">> >>) @@
           (<<<<"os">>, <<"Remove">>>>        :> << <<"error">> >>) @@
           (<<<<"os">>, <<"OpenOrCreate">>>>  :> << <<"error">>, <<"*", "File">> >>) @@
           (<<<<"os">>, <<"Weird">>>>         :> << <<"[]">>, EmptyString, <<"File">> >>) @@
           (<<<<"os">>, <<"ReadFile">>>>      :> << <<"[]", "byte">>, <<"error">> >>) @@
           (<<<<"bufio">>, <<"NewReader">>>>  :> << <<"io", ".", "Reader">> >>))

----------------------------------------------------------------------------
(* GoTypeInferenceEngine: return types                                     *)

Result(info, ok) == [info |-> info, ok |-> ok]

\* e.Registry
EngineRegistry == IF engineHasRegistry THEN reg ELSE Nil

\* the loop of GetReturnType over fn.Returns, from index i
RECURSIVE StdlibReturnLoop(_, _, _)
StdlibReturnLoop(returns, path, i) ==
    IF i > Len(returns) THEN Result(Nil, FALSE)
    ELSE IF returns[i] = EmptyString \/ returns[i] = <<"error">>
         THEN StdlibReturnLoop(returns, path, i + 1)
    ELSE LET typeFQN == stdlibNormalizeType(returns[i], path)
         IN  IF typeFQN = EmptyString
             THEN StdlibReturnLoop(returns, path, i + 1)
             ELSE Result(TypeInfo(typeFQN, 100, "stdlib"), TRUE)

\* a plausible slip: the import path is not validated before the lookup
StdlibFallbackNoValidate(registry, functionFQN) ==
    IF registry = Nil \/ registry.StdlibLoader = Nil THEN Result(Nil, FALSE)
    ELSE LET dotIdx == LastIndex(functionFQN, ".")
         IN  IF dotIdx <= 0 THEN Result(Nil, FALSE)
             ELSE LET path == SubSeq(functionFQN, 1, dotIdx)
                      funcName == SubSeq(functionFQN, dotIdx + 2, Len(functionFQN))
                      loader == registry.StdlibLoader
                  IN  IF ~HasFunction(loader, path, funcName)
                      THEN Result(Nil, FALSE)
                      ELSE StdlibReturnLoop(
                               FunctionReturns(loader, path, funcName), path, 1)

\* step 2 of GetReturnType: the stdlib fallback
StdlibFallback(registry, functionFQN) ==
    IF registry = Nil \/ registry.StdlibLoader = Nil THEN Result(Nil, FALSE)
    ELSE LET dotIdx == LastIndex(functionFQN, ".")
         IN  IF dotIdx <= 0 THEN Result(Nil, FALSE)
             ELSE LET path == SubSeq(functionFQN, 1, dotIdx)
                      funcName == SubSeq(functionFQN, dotIdx + 2, Len(functionFQN))
                      loader == registry.StdlibLoader
                  IN  IF ~ValidateStdlibImport(loader, path) THEN Result(Nil, FALSE)
                      ELSE IF ~HasFunction(loader, path, funcName)
                           THEN Result(Nil, FALSE)
                      ELSE StdlibReturnLoop(
                               FunctionReturns(loader, path, funcName), path, 1)

\* a plausible slip: the manifest is asked before the local table
GetReturnTypeStdlibFirst(returnTypes, registry, functionFQN) ==
    LET std == StdlibFallback(registry, functionFQN)
    IN  IF std.ok THEN std
        ELSE IF functionFQN \in DOMAIN returnTypes
             THEN Result(returnTypes[functionFQN], TRUE)
             ELSE Result(Nil, FALSE)

\* GoTypeInferenceEngine.GetReturnType
GetReturnType(returnTypes, registry, functionFQN) ==
    IF functionFQN \in DOMAIN returnTypes
    THEN Result(returnTypes[functionFQN], TRUE)
    ELSE StdlibFallback(registry, functionFQN)

\* GoTypeInferenceEngine.AddReturnType
AddReturnType(returnTypes, functionFQN, typeInfo) ==
    IF typeInfo = Nil THEN returnTypes
    ELSE MapPut(returnTypes, functionFQN, typeInfo)

\* GoTypeInferenceEngine.HasReturnType
HasReturnType(returnTypes, functionFQN) == functionFQN \in DOMAIN returnTypes

LocalFQNs == {Fqn(<<"fmt">>, "Sprintf"), Fqn(<<"myapp">>, "GetUser")}

LocalTypeInfos ==
    {TypeInfo(<<"myapp", ".", "CustomString">>, 80, "declaration"),
     TypeInfo(<<"myapp", ".", "User">>, 95, "declaration")}

QueryFQNs ==
    LocalFQNs \cup
    {Fqn(<<"net/http">>, "Get"), Fqn(<<"fmt">>, "Println"),
     Fqn(<<"os">>, "Remove"), Fqn(<<"os">>, "OpenOrCreate"),
     Fqn(<<"os">>, "Weird"), Fqn(<<"os">>, "ReadFile"),
     Fqn(<<"fmt">>, "NonExistent"), Fqn(<<"bufio">>, "NewReader"),
     Fqn(<<"github", ".", "com/myapp/utils">>, "GetUser"),
     <<"nodot">>, <<".", "Leading">>, <<"fmt", ".">>}

EngineInit ==
    /\ mode = "engine"
    /\ \E loader \in {Nil, StdlibManifest} :
          reg = Registry(<<"myapp">>, EmptyString, EmptyMap, EmptyMap, loader)
    /\ engineHasRegistry \in BOOLEAN
    /\ ReturnTypes = EmptyMap
    /\ Scopes = EmptyMap
    /\ QueryIdle
    /\ NormIdle
    /\ ScopeIdle
    /\ Pass2bIdle
    /\ VersionIdle
    /\ CallIdle
    /\ RegistryIdle
    /\ ImportIdle
    /\ MoreIdle

AddReturnTypeCall(functionFQN, typeInfo) ==
    /\ mode = "engine"
    /\ ReturnTypes' = AddReturnType(ReturnTypes, functionFQN, typeInfo)
    /\ registered' = IF typeInfo = Nil THEN registered
                     ELSE MapPut(registered, functionFQN, typeInfo)
    /\ UNCHANGED <<reg, engineHasRegistry, Scopes, lastFQN, lastResult, queryTick>>
    /\ UNCHANGED notEngine

GetReturnTypeCall(functionFQN) ==
    /\ mode = "engine"
    /\ lastFQN' = functionFQN
    /\ lastResult' = GetReturnType(ReturnTypes, EngineRegistry, functionFQN)
    /\ queryTick' = ~queryTick
    /\ UNCHANGED <<engineVars, registered>>
    /\ UNCHANGED notEngine

EngineNext ==
    \/ \E f \in LocalFQNs, t \in LocalTypeInfos \cup {Nil} : AddReturnTypeCall(f, t)
    \/ \E f \in QueryFQNs : GetReturnTypeCall(f)

SpecEngine == EngineInit /\ [][EngineNext]_vars

\* C7: GetReturnType(fqn) returns exactly the TypeInfo most recently
\* registered (non-nil) with AddReturnType(fqn, .) whenever there is one,
\* whether or not a loader is attached and whatever the loader reports.
C7_LocalWins ==
    [][(queryTick' # queryTick /\ lastFQN' \in DOMAIN registered)
          => lastResult' = Result(registered[lastFQN'], TRUE)]_vars

\* a locally registered stdlib FQN was queried with the manifest attached
C7_Witness ==
    /\ mode = "engine"
    /\ lastFQN = Fqn(<<"fmt">>, "Sprintf")
    /\ lastFQN \in DOMAIN registered
    /\ EngineRegistry # Nil
    /\ EngineRegistry.StdlibLoader # Nil
    /\ lastResult # Nil
    /\ lastResult.ok
    /\ lastResult.info.Source = "declaration"

\* the parts of an FQN on either side of its last "."
PathOf(fqn) == SubSeq(fqn, 1, LastIndex(fqn, "."))
NameOf(fqn) == SubSeq(fqn, LastIndex(fqn, ".") + 2, Len(fqn))

\* indices of the return values that are neither empty nor `error` and whose
\* normalisation is non-empty
UsableReturns(returns, path) ==
    {i \in 1..Len(returns) :
        /\ returns[i] # EmptyString
        /\ returns[i] # <<"error">>
        /\ stdlibNormalizeType(returns[i], path) # EmptyString}

FirstUsable(returns, path) ==
    CHOOSE i \in UsableReturns(returns, path) :
        \A j \in UsableReturns(returns, path) : i <= j

LoaderAttached == EngineRegistry # Nil /\ EngineRegistry.StdlibLoader # Nil

\* the stdlib entry an FQN names, when the attached loader has one
StdlibEntryExists(fqn) ==
    /\ LoaderAttached
    /\ Contains(fqn, ".")
    /\ ValidateStdlibImport(EngineRegistry.StdlibLoader, PathOf(fqn))
    /\ HasFunction(EngineRegistry.StdlibLoader, PathOf(fqn), NameOf(fqn))

\* C8: on a local miss GetReturnType reports found only if a loader is
\* attached, the prefix before the last "." validates as stdlib and the
\* function exists; the result is the normalised first usable return value
\* with source stdlib and confidence 1.0; an empty or error-only return
\* list, an FQN without ".", a non-stdlib prefix, an unknown function and
\* an absent loader all give (nil, false).
C8_StdlibFallback ==
    [][(queryTick' # queryTick /\ lastFQN' \notin DOMAIN ReturnTypes) =>
          LET fqn == lastFQN'
              res == lastResult'
          IN  /\ res.ok =>
                    /\ StdlibEntryExists(fqn)
                    /\ LET returns == FunctionReturns(
                               EngineRegistry.StdlibLoader, PathOf(fqn), NameOf(fqn))
                       IN  /\ UsableReturns(returns, PathOf(fqn)) # {}
                           /\ res.info =
                                TypeInfo(stdlibNormalizeType(
                                            returns[FirstUsable(returns, PathOf(fqn))],
                                            PathOf(fqn)),
                                         100, "stdlib")
              /\ ~StdlibEntryExists(fqn) => res = Result(Nil, FALSE)
              /\ (StdlibEntryExists(fqn) /\
                  UsableReturns(FunctionReturns(EngineRegistry.StdlibLoader,
                                                PathOf(fqn), NameOf(fqn)),
                                PathOf(fqn)) = {})
                    => res = Result(Nil, FALSE)]_vars

\* a stdlib function whose first two return values are unusable was resolved
\* through the manifest on a local miss
C8_Witness ==
    /\ mode = "engine"
    /\ lastFQN = Fqn(<<"os">>, "Weird")
    /\ lastFQN \notin DOMAIN ReturnTypes
    /\ lastResult = Result(TypeInfo(<<"os", ".", "File">>, 100, "stdlib"), TRUE)

----------------------------------------------------------------------------
(* Pass 2b: ExtractGoVariableAssignments                                   *)
(*                                                                         *)
(* Syntax-tree nodes are records with a Type and, where they have named    *)
(* children, a children sequence in source order.                          *)

\* node.ChildByFieldName(field) # nil
HasChild(node, field) == field \in DOMAIN node

Lit(kind) == [Type |-> kind]
Ident(name) == [Type |-> "identifier", content |-> name]
Selector(operand, field) ==
    [Type |-> "selector_expression", operand |-> operand, field |-> field]
Call(function) == [Type |-> "call_expression", function |-> function]
Unary(operator, operand) ==
    [Type |-> "unary_expression", operator |-> operator, operand |-> operand]
Binary == [Type |-> "binary_expression"]
Composite(typeText) == [Type |-> "composite_literal", type |-> typeText]
ExprList(children) == [Type |-> "expression_list", children |-> children]

ShortVar(left, right, text, line) ==
    [Type |-> "short_var_declaration", left |-> left, right |-> right,
     text |-> text, line |-> line, children |-> <<>>]
Assign(left, right, text, line) ==
    [Type |-> "assignment_statement", left |-> left, right |-> right,
     text |-> text, line |-> line, children |-> <<>>]
FuncDecl(name, body) ==
    [Type |-> "function_declaration", name |-> name, children |-> body]
MethodDecl(receiverType, name, body) ==
    [Type |-> "method_declaration", receiver |-> receiverType, name |-> name,
     children |-> body]
SourceFile(decls) == [Type |-> "source_file", children |-> decls]

\* golangpkg.ParseShortVarDeclaration: one VariableInfo per left-hand
\* identifier, in order, with the right-hand text and the statement's line
ParseShortVarDeclaration(node) ==
    [i \in 1..Len(node.left) |->
        [Name |-> node.left[i], Value |-> node.text, LineNumber |-> node.line]]

\* golangpkg.ParseAssignment: the same for an assignment statement
ParseAssignment(node) ==
    [i \in 1..Len(node.left) |->
        [Name |-> node.left[i], Value |-> node.text, LineNumber |-> node.line]]

\* ParseGoTypeString, as used for a struct literal's type name
ParseGoTypeString(typeName, registry, filePath) ==
    LET t == TrimPrefix(TrimPrefix(typeName, "*"), "[]")
    IN  IF t = EmptyString THEN Nil
        ELSE IF IsBuiltinTypeName(t)
             THEN TypeInfo(<<"builtin", ".">> \o t, 95, "declaration")
        ELSE IF Contains(t, ".") THEN TypeInfo(t, 95, "declaration")
        ELSE IF filePath.Dir \in DOMAIN registry.DirToImport
             THEN TypeInfo(registry.DirToImport[filePath.Dir] \o <<".">> \o t,
                           95, "declaration")
             ELSE Nil

\* extractReceiverType: the receiver's type text without a leading "*"
extractReceiverType(receiverType) == TrimPrefix(receiverType, "*")

\* extractGoFunctionName
extractGoFunctionName(funcNode, importMap) ==
    IF funcNode.Type = "identifier" THEN <<funcNode.content>>
    ELSE IF funcNode.Type = "selector_expression"
         THEN IF importMap # Nil /\ funcNode.operand \in DOMAIN importMap.Imports
              THEN importMap.Imports[funcNode.operand] \o <<".">> \o <<funcNode.field>>
              ELSE <<funcNode.field>>
    ELSE EmptyString

\* the loop of inferTypeFromStdlibFunction over fn.Returns, from index i
RECURSIVE StdlibFunctionLoop(_, _, _)
StdlibFunctionLoop(returns, path, i) ==
    IF i > Len(returns) THEN Nil
    ELSE IF returns[i] = EmptyString \/ returns[i] = <<"error">>
         THEN StdlibFunctionLoop(returns, path, i + 1)
    ELSE LET typeFQN == normalizeStdlibReturnType(returns[i], path)
         IN  IF typeFQN = EmptyString
             THEN StdlibFunctionLoop(returns, path, i + 1)
             ELSE TypeInfo(typeFQN, 90, "stdlib_registry")

\* inferTypeFromStdlibFunction
inferTypeFromStdlibFunction(path, funcName, registry) ==
    IF registry.StdlibLoader = Nil THEN Nil
    ELSE IF ~ValidateStdlibImport(registry.StdlibLoader, path) THEN Nil
    ELSE IF ~HasFunction(registry.StdlibLoader, path, funcName) THEN Nil
    ELSE IF Len(FunctionReturns(registry.StdlibLoader, path, funcName)) = 0 THEN Nil
    ELSE StdlibFunctionLoop(
             FunctionReturns(registry.StdlibLoader, path, funcName), path, 1)

\* inferTypeFromFunctionCall
inferTypeFromFunctionCall(callNode, filePath, registry, importMap) ==
    LET name0 == extractGoFunctionName(callNode.function, importMap)
    IN  IF name0 = EmptyString THEN Nil
        ELSE LET funcName ==
                     IF ~Contains(name0, ".") /\ filePath.Dir \in DOMAIN registry.DirToImport
                     THEN registry.DirToImport[filePath.Dir] \o <<".">> \o name0
                     ELSE name0
                 local == GetReturnType(ReturnTypes, EngineRegistry, funcName)
                 idx == LastIndex(funcName, ".")
             IN  IF local.ok THEN local.info
                 ELSE IF idx > 0
                      THEN inferTypeFromStdlibFunction(
                               SubSeq(funcName, 1, idx),
                               SubSeq(funcName, idx + 2, Len(funcName)),
                               registry)
                      ELSE Nil

\* inferTypeFromVariable
inferTypeFromVariable(varName, functionFQN, scopes) ==
    IF functionFQN \notin DOMAIN scopes THEN Nil
    ELSE LET bindings == MapGet(scopes[functionFQN].Variables, varName, <<>>)
         IN  IF Len(bindings) = 0 THEN Nil ELSE bindings[Len(bindings)].Type

LiteralTypes ==
    ("interpreted_string_literal" :> "string") @@ ("raw_string_literal" :> "string") @@
    ("int_literal" :> "int") @@ ("float_literal" :> "float64") @@
    ("imaginary_literal" :> "complex128") @@ ("true" :> "bool") @@
    ("false" :> "bool") @@ ("rune_literal" :> "rune") @@ ("nil" :> "nil")

\* inferTypeFromRHS, with inferTypeFromUnaryExpression and
\* inferTypeFromCompositeLiteral inlined at their cases
RECURSIVE inferTypeFromRHS(_, _, _, _, _, _)
inferTypeFromRHS(rhsNode, filePath, functionFQN, scopes, registry, importMap) ==
    IF rhsNode = Nil THEN Nil
    ELSE IF rhsNode.Type \in DOMAIN LiteralTypes
         THEN TypeInfo(<<"builtin", ".", LiteralTypes[rhsNode.Type]>>, 100, "literal")
    ELSE IF rhsNode.Type = "call_expression"
         THEN inferTypeFromFunctionCall(rhsNode, filePath, registry, importMap)
    ELSE IF rhsNode.Type = "identifier"
         THEN inferTypeFromVariable(rhsNode.content, functionFQN, scopes)
    ELSE IF rhsNode.Type = "composite_literal"
         THEN ParseGoTypeString(rhsNode.type, registry, filePath)
    ELSE IF rhsNode.Type = "unary_expression"
         THEN IF rhsNode.operator = "&"
              THEN inferTypeFromRHS(rhsNode.operand, filePath, functionFQN,
                                    scopes, registry, importMap)
              ELSE Nil
    ELSE IF rhsNode.Type = "expression_list"
         THEN IF Len(rhsNode.children) > 0
              THEN inferTypeFromRHS(rhsNode.children[1], filePath, functionFQN,
                                    scopes, registry, importMap)
              ELSE Nil
    ELSE Nil

\* "get or create function scope" followed by scope.AddVariable(binding)
BindInScope(scopes, functionFQN, binding) ==
    LET scope0 == IF functionFQN \in DOMAIN scopes
                  THEN scopes[functionFQN]
                  ELSE NewGoFunctionScope(functionFQN)
    IN  MapPut(scopes, functionFQN, AddVariable(scope0, binding))

Binding(varInfo, typeInfo, filePath) ==
    [VarName |-> varInfo.Name, Type |-> typeInfo, AssignedFrom |-> varInfo.Value,
     Location |-> [File |-> filePath, Line |-> varInfo.LineNumber]]

\* the loop of processShortVarDeclaration over varInfos, from index i
RECURSIVE ShortVarLoop(_, _, _, _, _, _, _, _)
ShortVarLoop(varInfos, i, rhsNode, filePath, functionFQN, scopes, registry, importMap) ==
    IF i > Len(varInfos) THEN scopes
    ELSE IF varInfos[i].Name = "_"
         THEN ShortVarLoop(varInfos, i + 1, rhsNode, filePath, functionFQN,
                           scopes, registry, importMap)
    ELSE LET typeInfo == inferTypeFromRHS(rhsNode, filePath, functionFQN,
                                          scopes, registry, importMap)
         IN  IF typeInfo = Nil
             THEN ShortVarLoop(varInfos, i + 1, rhsNode, filePath, functionFQN,
                               scopes, registry, importMap)
             ELSE ShortVarLoop(varInfos, i + 1, rhsNode, filePath, functionFQN,
                               BindInScope(scopes, functionFQN,
                                           Binding(varInfos[i], typeInfo, filePath)),
                               registry, importMap)

\* a plausible slip: only the first target of the declaration is bound
processShortVarDeclarationFirstOnly(node, filePath, functionFQN, scopes, registry, importMap) ==
    IF Len(ParseShortVarDeclaration(node)) = 0 THEN scopes
    ELSE IF ~HasChild(node, "right") THEN scopes
    ELSE ShortVarLoop(SubSeq(ParseShortVarDeclaration(node), 1, 1), 1, node.right,
                      filePath, functionFQN, scopes, registry, importMap)

\* processShortVarDeclaration
processShortVarDeclaration(node, filePath, functionFQN, scopes, registry, importMap) ==
    IF Len(ParseShortVarDeclaration(node)) = 0 THEN scopes
    ELSE IF ~HasChild(node, "right") THEN scopes
    ELSE ShortVarLoop(ParseShortVarDeclaration(node), 1, node.right, filePath,
                      functionFQN, scopes, registry, importMap)

\* the loop of processAssignmentStatement over varInfos, from index i
RECURSIVE AssignmentLoop(_, _, _, _, _, _, _, _)
AssignmentLoop(varInfos, i, rhsNode, filePath, functionFQN, scopes, registry, importMap) ==
    IF i > Len(varInfos) THEN scopes
    ELSE LET typeInfo == inferTypeFromRHS(rhsNode, filePath, functionFQN,
                                          scopes, registry, importMap)
         IN  IF typeInfo = Nil
             THEN AssignmentLoop(varInfos, i + 1, rhsNode, filePath, functionFQN,
                                 scopes, registry, importMap)
             ELSE AssignmentLoop(varInfos, i + 1, rhsNode, filePath, functionFQN,
                                 BindInScope(scopes, functionFQN,
                                             Binding(varInfos[i], typeInfo, filePath)),
                                 registry, importMap)

\* processAssignmentStatement
processAssignmentStatement(node, filePath, functionFQN, scopes, registry, importMap) ==
    IF Len(ParseAssignment(node)) = 0 THEN scopes
    ELSE IF ~HasChild(node, "right") THEN scopes
    ELSE AssignmentLoop(ParseAssignment(node), 1, node.right, filePath,
                        functionFQN, scopes, registry, importMap)

\* the function context a node establishes for itself and its subtree
FunctionContext(node, packagePath, currentFunctionFQN) ==
    IF node.Type = "function_declaration"
    THEN IF HasChild(node, "name")
         THEN packagePath \o <<".">> \o <<node.name>>
         ELSE currentFunctionFQN
    ELSE IF node.Type = "method_declaration"
         THEN IF HasChild(node, "name") /\ HasChild(node, "receiver")
                 /\ extractReceiverType(node.receiver) # EmptyString
              THEN packagePath \o <<".">> \o extractReceiverType(node.receiver)
                       \o <<".">> \o <<node.name>>
              ELSE currentFunctionFQN
    ELSE currentFunctionFQN

\* traverseForVariableAssignments (pre-order), and its loop over the named
\* children from index i
RECURSIVE traverseForVariableAssignments(_, _, _, _, _, _, _)
RECURSIVE TraverseChildren(_, _, _, _, _, _, _, _)
traverseForVariableAssignments(node, filePath, packagePath, currentFunctionFQN, scopes, registry, importMap) ==
    IF node = Nil THEN scopes
    ELSE LET fqn == FunctionContext(node, packagePath, currentFunctionFQN)
             here ==
                 IF node.Type = "short_var_declaration" /\ fqn # EmptyString
                 THEN processShortVarDeclaration(node, filePath, fqn, scopes,
                                                 registry, importMap)
                 ELSE IF node.Type = "assignment_statement" /\ fqn # EmptyString
                      THEN processAssignmentStatement(node, filePath, fqn, scopes,
                                                      registry, importMap)
                      ELSE scopes
         IN  TraverseChildren(node.children, 1, filePath, packagePath, fqn,
                              here, registry, importMap)

TraverseChildren(children, i, filePath, packagePath, currentFunctionFQN, scopes, registry, importMap) ==
    IF i > Len(children) THEN scopes
    ELSE TraverseChildren(children, i + 1, filePath, packagePath, currentFunctionFQN,
             traverseForVariableAssignments(children[i], filePath, packagePath,
                 currentFunctionFQN, scopes, registry, importMap),
             registry, importMap)

\* ExtractGoVariableAssignments: the scopes after the pass over one file
ExtractGoVariableAssignments(file, scopes, registry, importMap) ==
    IF file.Path.Dir \notin DOMAIN registry.DirToImport THEN scopes
    ELSE traverseForVariableAssignments(file.root, file.Path,
             registry.DirToImport[file.Path.Dir], EmptyString,
             scopes, registry, importMap)

----------------------------------------------------------------------------
(* Pass 2b as a state machine: the files of a project are handed to        *)
(* ExtractGoVariableAssignments one after the other, in any order.         *)

\* bound on the number of statements in the body of the function in a.go
MaxStmts == 2

FilePath(dir, base) == [Dir |-> dir, Base |-> base]

\* the import map of every file of the project: import "net/http"
ProjectImportMap == [Imports |-> ("http" :> <<"net/http">>)]

\* statement shapes, each placed at a source line
\*   resp, _ := http.Get(url)
StmtStdlibCall(line) ==
    ShortVar(<<"resp", "_">>, ExprList(<<Call(Selector("http", "Get"))>>),
             "http.Get(url)", line)

\*   _ = resp
StmtBlankAssign(line) ==
    Assign(<<"_">>, ExprList(<<Ident("resp")>>), "resp", line)

\*   x := 1
StmtLiteral(line) ==
    ShortVar(<<"x">>, ExprList(<<Lit("int_literal")>>), "1", line)

\*   x = NewUser()
StmtLocalCall(line) ==
    Assign(<<"x">>, ExprList(<<Call(Ident("NewUser"))>>), "NewUser()", line)

\*   resp = &User{}
StmtAddressOf(line) ==
    Assign(<<"resp">>, ExprList(<<Unary("&", Composite(<<"User">>))>>),
           "&User{}", line)

\*   y := a + b
StmtBinary(line) ==
    ShortVar(<<"y">>, ExprList(<<Binary>>), "a + b", line)

Statements(line) ==
    {StmtStdlibCall(line), StmtBlankAssign(line), StmtLiteral(line),
     StmtLocalCall(line), StmtAddressOf(line), StmtBinary(line)}

\* function bodies of n statements on consecutive lines from firstLine
RECURSIVE Bodies(_, _)
Bodies(n, firstLine) ==
    IF n = 0 THEN {<<>>}
    ELSE {<<st>> \o rest : st \in Statements(firstLine),
                           rest \in Bodies(n - 1, firstLine + 1)}

\* a.go and b.go belong to package "test" and each declares func init();
\* vendored.go lies in a directory the module registry does not know
ProjectFiles ==
    {[Path |-> FilePath("/test", "a.go"),
      root |-> SourceFile(<<FuncDecl("init", body)>>)] :
        body \in UNION {Bodies(n, 10) : n \in 1..MaxStmts}}
    \cup
    {[Path |-> FilePath("/test", "b.go"),
      root |-> SourceFile(<<FuncDecl("init", body)>>)] : body \in Bodies(1, 3)}
    \cup
    {[Path |-> FilePath("/test", "user.go"),
      root |-> SourceFile(<<MethodDecl(<<"*", "User">>, "Load", body)>>)] :
        body \in {<<StmtStdlibCall(7)>>, <<StmtLiteral(7)>>}}
    \cup
    {[Path |-> FilePath("/vendor/dep", "vendored.go"),
      root |-> SourceFile(<<FuncDecl("init", body)>>)] :
        body \in {<<StmtLiteral(1)>>}}

Pass2bInit ==
    /\ mode = "pass2b"
    /\ \E loader \in {Nil, StdlibManifest} :
          reg = Registry(<<"test">>, EmptyString,
                         ("/test" :> <<"test">>), (<<"test">> :> "/test"), loader)
    /\ engineHasRegistry \in BOOLEAN
    /\ ReturnTypes = (Fqn(<<"test">>, "NewUser")
                         :> TypeInfo(<<"test", ".", "User">>, 95, "declaration"))
    /\ Scopes = EmptyMap
    /\ processed = <<>>
    /\ NormIdle
    /\ ScopeIdle
    /\ QueryIdle
    /\ VersionIdle
    /\ CallIdle
    /\ RegistryIdle
    /\ ImportIdle
    /\ MoreIdle

ExtractGoVariableAssignmentsCall(file) ==
    /\ mode = "pass2b"
    /\ \A i \in 1..Len(processed) : processed[i] # file.Path
    /\ Scopes' = ExtractGoVariableAssignments(file, Scopes, reg, ProjectImportMap)
    /\ processed' = Append(processed, file.Path)
    /\ UNCHANGED <<reg, engineHasRegistry, ReturnTypes>>
    /\ UNCHANGED notPass2b

Pass2bNext == \E file \in ProjectFiles : ExtractGoVariableAssignmentsCall(file)

SpecPass2b == Pass2bInit /\ [][Pass2bNext]_vars

\* the bindings of a variable name in the scope of a function, oldest first
BindingsOf(functionFQN, varName) ==
    IF functionFQN \in DOMAIN Scopes
    THEN GetAllBindings(Scopes[functionFQN], varName)
    ELSE <<>>

\* C2: when the type engine and the registry carry a loader that validates
\* net/http and reports Get as returning [*Response, error], the latest
\* binding of resp made by `resp, _ := http.Get(url)` has typeFQN
\* net/http.Response, source stdlib_registry and confidence 0.9.
C2_StdlibRegistryBinding ==
    \A f \in DOMAIN Scopes :
        (/\ mode = "pass2b"
         /\ reg.StdlibLoader # Nil
         /\ engineHasRegistry
         /\ HasVariable(Scopes[f], "resp")
         /\ GetVariable(Scopes[f], "resp").AssignedFrom = "http.Get(url)")
        => GetVariable(Scopes[f], "resp").Type
               = TypeInfo(<<"net/http", ".", "Response">>, 90, "stdlib_registry")

\* C3: after Pass 2b no function scope holds a binding named `_`, neither
\* from a short variable declaration nor from a plain assignment.
C3_BlankNeverBound ==
    \A f \in DOMAIN Scopes : ~HasVariable(Scopes[f], "_")

\* C5: in every scope, for every variable name, the binding GetVariable
\* returns has the maximum source line among the bindings of that name.
C5_LatestIsMaxLine ==
    \A f \in DOMAIN Scopes :
        \A n \in DOMAIN Scopes[f].Variables :
            \A i \in 1..Len(BindingsOf(f, n)) :
                BindingsOf(f, n)[i].Location.Line
                    <= GetVariable(Scopes[f], n).Location.Line

----------------------------------------------------------------------------
(* Toolchain version detection and stdlib loader initialisation            *)
(* (builder/go_version.go).  File contents are token sequences: "\n", " "  *)
(* and "\t" are whitespace, a run of digits is one token, "." is a token.  *)

defaultGoVersion == <<"1", ".", "21">>

IsSpace(tok) == tok \in {" ", "\t", "\n"}

IsDigits(tok) == tok \in {"1", "4", "19", "20", "21", "22", "23"}

\* os.ReadFile: a file that exists yields its data, any other an error
File(data) == [exists |-> TRUE, data |-> data]
NoFile == [exists |-> FALSE, data |-> EmptyString]

\* strings.Index, 0-based, -1 when absent
RECURSIVE IndexFrom(_, _, _)
IndexFrom(s, tok, i) ==
    IF i > Len(s) THEN -1
    ELSE IF s[i] = tok THEN i - 1
    ELSE IndexFrom(s, tok, i + 1)

\* strings.Split
RECURSIVE Split(_, _)
Split(s, sep) ==
    LET i == IndexFrom(s, sep, 1)
    IN  IF i < 0 THEN <<s>>
        ELSE <<SubSeq(s, 1, i)>> \o Split(SubSeq(s, i + 2, Len(s)), sep)

\* strings.TrimSpace
RECURSIVE TrimSpace(_)
TrimSpace(s) ==
    IF Len(s) = 0 THEN s
    ELSE IF IsSpace(s[1]) THEN TrimSpace(Tail(s))
    ELSE IF IsSpace(s[Len(s)]) THEN TrimSpace(SubSeq(s, 1, Len(s) - 1))
    ELSE s

\* normalizeGoVersion
normalizeGoVersion(version) ==
    LET parts == Split(version, ".")
    IN  IF Len(parts) >= 2 THEN parts[1] \o <<".">> \o parts[2] ELSE version

\* \s+ from position q: the position after the run of whitespace
RECURSIVE SkipSpace(_, _)
SkipSpace(data, q) ==
    IF q <= Len(data) /\ IsSpace(data[q]) THEN SkipSpace(data, q + 1) ELSE q

\* goVersionRegex `(?m)^go\s+(\d+\.\d+)` tried at position p: the capture,
\* or the empty string when it does not match there
MatchGoDirectiveAt(data, p) ==
    IF /\ (p = 1 \/ data[p - 1] = "\n")
       /\ data[p] = "go"
       /\ p + 1 <= Len(data)
       /\ IsSpace(data[p + 1])
    THEN LET q == SkipSpace(data, p + 1)
         IN  IF /\ q + 2 <= Len(data)
                /\ IsDigits(data[q])
                /\ data[q + 1] = "."
                /\ IsDigits(data[q + 2])
             THEN SubSeq(data, q, q + 2)
             ELSE EmptyString
    ELSE EmptyString

\* goVersionRegex.FindSubmatch(data): the leftmost match from position p on
RECURSIVE FindGoDirective(_, _)
FindGoDirective(data, p) ==
    IF p > Len(data) THEN EmptyString
    ELSE IF MatchGoDirectiveAt(data, p) # EmptyString
         THEN MatchGoDirectiveAt(data, p)
         ELSE FindGoDirective(data, p + 1)

\* parseGoVersionFromFile
parseGoVersionFromFile(file) ==
    IF ~file.exists THEN EmptyString ELSE FindGoDirective(file.data, 1)

\* readGoVersionFile
readGoVersionFile(proj) ==
    IF ~proj.goVersionFile.exists THEN EmptyString
    ELSE normalizeGoVersion(TrimSpace(proj.goVersionFile.data))

\* a plausible slip: go.work is consulted before .go-version
DetectGoVersionWorkFirst(proj) ==
    IF parseGoVersionFromFile(proj.goMod) # EmptyString
    THEN normalizeGoVersion(parseGoVersionFromFile(proj.goMod))
    ELSE IF parseGoVersionFromFile(proj.goWork) # EmptyString
         THEN normalizeGoVersion(parseGoVersionFromFile(proj.goWork))
    ELSE IF readGoVersionFile(proj) # EmptyString
         THEN readGoVersionFile(proj)
    ELSE defaultGoVersion

\* DetectGoVersion
DetectGoVersion(proj) ==
    IF parseGoVersionFromFile(proj.goMod) # EmptyString
    THEN normalizeGoVersion(parseGoVersionFromFile(proj.goMod))
    ELSE IF readGoVersionFile(proj) # EmptyString
         THEN readGoVersionFile(proj)
    ELSE IF parseGoVersionFromFile(proj.goWork) # EmptyString
         THEN normalizeGoVersion(parseGoVersionFromFile(proj.goWork))
    ELSE defaultGoVersion

\* registry.NewGoStdlibRegistryRemote: a loader with no manifest yet
NewGoStdlibRegistryRemote(baseURL, version) ==
    [baseURL |-> baseURL, goVersion |-> version,
     packages |-> {}, functions |-> EmptyMap]

\* how fetching <baseURL>/go<version>/manifest.json can end
FetchOutcomes == {"ok", "transport_error", "http_404", "http_500", "parse_error"}

\* GoStdlibRegistryRemote.LoadManifest: an error unless the manifest was
\* fetched and parsed; on success the loader holds the manifest's packages
LoadManifest(remote, outcome) ==
    IF outcome = "ok"
    THEN [err |-> FALSE,
          remote |-> [remote EXCEPT !.packages = {<<"fmt">>, <<"os">>}]]
    ELSE [err |-> TRUE, remote |-> remote]

\* a plausible slip: reg.GoVersion is used as it stands
ManifestVersionRaw(registry, proj) ==
    IF registry.GoVersion = EmptyString
    THEN DetectGoVersion(proj)
    ELSE registry.GoVersion

\* the version initGoStdlibLoaderWithBase asks the CDN for
ManifestVersion(registry, proj) ==
    IF normalizeGoVersion(registry.GoVersion) = EmptyString
    THEN DetectGoVersion(proj)
    ELSE normalizeGoVersion(registry.GoVersion)

\* a plausible slip: the loader is stored whatever LoadManifest returned
initGoStdlibLoaderIgnoreError(registry, proj, baseURL, outcome) ==
    LET remote == NewGoStdlibRegistryRemote(baseURL, ManifestVersion(registry, proj))
    IN  [registry EXCEPT !.StdlibLoader = LoadManifest(remote, outcome).remote]

\* initGoStdlibLoaderWithBase: the registry it leaves behind
initGoStdlibLoaderWithBase(registry, proj, baseURL, outcome) ==
    LET remote == NewGoStdlibRegistryRemote(baseURL, ManifestVersion(registry, proj))
        loaded == LoadManifest(remote, outcome)
    IN  IF loaded.err THEN registry
        ELSE [registry EXCEPT !.StdlibLoader = loaded.remote]

stdlibRegistryBaseURL == "https://assets.codepathfinder.dev/registries"

\* the URL LoadManifest fetches: <baseURL>/go<version>/manifest.json
ManifestURL(remote) ==
    <<remote.baseURL, "/go">> \o remote.goVersion \o <<"/manifest.json">>

\* bound on the number of InitGoStdlibLoader calls in one behaviour
MaxInits == 2

\* go.mod: absent; without a go directive; "go 1.23"; "go 1.21.4"; a go
\* directive only inside a comment
GoModFiles ==
    {NoFile,
     File(<<"module", " ", "example.com/app", "\n">>),
     File(<<"module", " ", "example.com/app", "\n", "\n",
            "go", " ", "1", ".", "23", "\n">>),
     File(<<"module", " ", "example.com/app", "\n",
            "go", "\t", "1", ".", "21", ".", "4", "\n">>),
     File(<<"module", " ", "example.com/app", "\n",
            "//", " ", "go", " ", "1", ".", "19", "\n">>)}

\* .go-version: absent; blank; "1.22.4\n"; "  1.20"; "1.23rc1\n"
GoVersionFiles ==
    {NoFile,
     File(<<"\n">>),
     File(<<"1", ".", "22", ".", "4", "\n">>),
     File(<<" ", "1", ".", "20">>),
     File(<<"1", ".", "23rc1", "\n">>)}

\* go.work: absent; "go 1.19"
GoWorkFiles ==
    {NoFile,
     File(<<"go", " ", "1", ".", "19", "\n", "\n", "use", " ", "./app", "\n">>)}

Projects ==
    {[goMod |-> m, goVersionFile |-> v, goWork |-> w] :
        m \in GoModFiles, v \in GoVersionFiles, w \in GoWorkFiles}

\* reg.GoVersion as the registry builder or a caller left it
RegistryGoVersions ==
    {EmptyString, <<"1", ".", "21">>, <<"1", ".", "21", ".", "4">>}

VersionInit ==
    /\ mode = "version"
    /\ project \in Projects
    /\ \E v \in RegistryGoVersions :
          reg = Registry(<<"example.com/app">>, v,
                         ("/app" :> <<"example.com/app">>),
                         (<<"example.com/app">> :> "/app"), Nil)
    /\ detected = EmptyString
    /\ versionPc = "start"
    /\ requested = EmptyString
    /\ loadOutcome = "none"
    /\ regBefore = Nil
    /\ initCalls = 0
    /\ engineHasRegistry = FALSE
    /\ ReturnTypes = EmptyMap
    /\ Scopes = EmptyMap
    /\ NormIdle
    /\ ScopeIdle
    /\ QueryIdle
    /\ Pass2bIdle
    /\ CallIdle
    /\ RegistryIdle
    /\ ImportIdle
    /\ MoreIdle

DetectGoVersionCall ==
    /\ mode = "version"
    /\ versionPc = "start"
    /\ detected' = DetectGoVersion(project)
    /\ versionPc' = "detected"
    /\ UNCHANGED <<project, requested, loadOutcome, regBefore, initCalls>>
    /\ UNCHANGED engineVars
    /\ UNCHANGED notVersion

InitGoStdlibLoaderCall(outcome) ==
    /\ mode = "version"
    /\ initCalls < MaxInits
    /\ regBefore' = reg
    /\ requested' = ManifestURL(NewGoStdlibRegistryRemote(
                         stdlibRegistryBaseURL, ManifestVersion(reg, project)))
    /\ loadOutcome' = outcome
    /\ reg' = initGoStdlibLoaderWithBase(reg, project, stdlibRegistryBaseURL, outcome)
    /\ initCalls' = initCalls + 1
    /\ UNCHANGED <<project, detected, versionPc>>
    /\ UNCHANGED <<engineHasRegistry, ReturnTypes, Scopes>>
    /\ UNCHANGED notVersion

VersionNext ==
    \/ DetectGoVersionCall
    \/ \E outcome \in FetchOutcomes : InitGoStdlibLoaderCall(outcome)

SpecVersion == VersionInit /\ [][VersionNext]_vars

\* C9: a loader init that finds the registry without a loader leaves it with
\* one exactly when the manifest was fetched and parsed, and in either case
\* ModulePath, GoVersion, DirToImport and ImportToDir are what they were.
C9_GracefulDegradation ==
    (mode = "version" /\ initCalls > 0 /\ regBefore.StdlibLoader = Nil)
    => /\ (reg.StdlibLoader # Nil) <=> (loadOutcome = "ok")
       /\ reg.ModulePath = regBefore.ModulePath
       /\ reg.GoVersion = regBefore.GoVersion
       /\ reg.DirToImport = regBefore.DirToImport
       /\ reg.ImportToDir = regBefore.ImportToDir

C9_Witness ==
    /\ mode = "version"
    /\ initCalls > 0
    /\ regBefore.StdlibLoader = Nil
    /\ loadOutcome = "http_500"
    /\ reg.StdlibLoader = Nil
    /\ reg.GoVersion = <<"1", ".", "21", ".", "4">>

\* the content of .go-version without its leading and trailing whitespace
TrimmedGoVersionFile ==
    LET data == project.goVersionFile.data
        solid == {i \in 1..Len(data) : ~IsSpace(data[i])}
    IN  IF solid = {} THEN EmptyString
        ELSE SubSeq(data, CHOOSE i \in solid : \A j \in solid : i <= j,
                          CHOOSE i \in solid : \A j \in solid : j <= i)

\* a version cut before its second ".", when it has one
FirstTwoComponents(v) ==
    LET dots == {i \in 1..Len(v) : v[i] = "."}
    IN  IF Cardinality(dots) < 2 THEN v
        ELSE SubSeq(v, 1, (CHOOSE i \in dots :
                              Cardinality({j \in dots : j < i}) = 1) - 1)

\* C10 as stated: go.mod's directive, else the trimmed content of
\* .go-version, else go.work's directive, else 1.21.
C10_PriorityChainTrimmed ==
    (mode = "version" /\ versionPc = "detected")
    => detected =
         IF parseGoVersionFromFile(project.goMod) # EmptyString
         THEN parseGoVersionFromFile(project.goMod)
         ELSE IF project.goVersionFile.exists /\ TrimmedGoVersionFile # EmptyString
              THEN TrimmedGoVersionFile
         ELSE IF parseGoVersionFromFile(project.goWork) # EmptyString
              THEN parseGoVersionFromFile(project.goWork)
         ELSE <<"1", ".", "21">>

\* C10, amended: go.mod's directive, else the trimmed content of .go-version
\* cut to its first two dot-separated components, else go.work's directive,
\* else 1.21; a lower source is used only when every higher one yields none.
C10_PriorityChain ==
    (mode = "version" /\ versionPc = "detected")
    => detected =
         IF parseGoVersionFromFile(project.goMod) # EmptyString
         THEN parseGoVersionFromFile(project.goMod)
         ELSE IF project.goVersionFile.exists /\ TrimmedGoVersionFile # EmptyString
              THEN FirstTwoComponents(TrimmedGoVersionFile)
         ELSE IF parseGoVersionFromFile(project.goWork) # EmptyString
              THEN parseGoVersionFromFile(project.goWork)
         ELSE <<"1", ".", "21">>

C10_Witness ==
    /\ mode = "version"
    /\ versionPc = "detected"
    /\ project.goMod.exists
    /\ parseGoVersionFromFile(project.goMod) = EmptyString
    /\ TrimmedGoVersionFile = <<"1", ".", "22", ".", "4">>
    /\ project.goWork.exists
    /\ detected = <<"1", ".", "22">>

----------------------------------------------------------------------------
(* Call-target resolution and call-site tagging (Call Graph Builder)       *)

\* bound on the number of call sites in the code graph handed to the builder
MaxCallSites == 2

\* the builtin functions of Go
GoBuiltins ==
    {"append", "cap", "clear", "close", "complex", "copy", "delete", "imag",
     "len", "make", "max", "min", "new", "panic", "print", "println", "real",
     "recover"}

CallSiteInternal(callerFQN, objectName, functionName) ==
    [CallerFQN |-> callerFQN, ObjectName |-> objectName,
     FunctionName |-> functionName]

Target(targetFQN, resolved, isStdlib) ==
    [targetFQN |-> targetFQN, resolved |-> resolved, isStdlib |-> isStdlib]

\* a plausible slip: with no loader, an import path without a domain name
\* ("fmt", "net/http") is taken for stdlib
resolveGoCallTargetLooksLikeStdlib(cs, importMap, registry, scopes, currentPackage) ==
    IF cs.ObjectName # "" /\ cs.ObjectName \in DOMAIN importMap.Imports
    THEN LET path == importMap.Imports[cs.ObjectName]
         IN  Target(path \o <<".">> \o <<cs.FunctionName>>, TRUE,
                    IF registry.StdlibLoader # Nil
                    THEN ValidateStdlibImport(registry.StdlibLoader, path)
                    ELSE ~Contains(path, "."))
    ELSE IF cs.ObjectName # ""
         THEN IF inferTypeFromVariable(cs.ObjectName, cs.CallerFQN, scopes) # Nil
              THEN Target(inferTypeFromVariable(cs.ObjectName, cs.CallerFQN, scopes).TypeFQN
                              \o <<".">> \o <<cs.FunctionName>>, TRUE, FALSE)
              ELSE Target(EmptyString, FALSE, FALSE)
    ELSE IF cs.FunctionName \in GoBuiltins
         THEN Target(<<"builtin", ".", cs.FunctionName>>, TRUE, FALSE)
    ELSE Target(currentPackage \o <<".">> \o <<cs.FunctionName>>, TRUE, FALSE)

\* resolveGoCallTarget: (targetFQN, resolved, isStdlib)
\*   1. a.b() with a an import alias     -> <importPath>.b, stdlib when the
\*                                          loader validates <importPath>
\*   2. a.b() with a a typed variable    -> <typeFQN>.b
\*   3. f()                              -> builtin.f or <currentPackage>.f
\*   4. anything else                    -> unresolved
resolveGoCallTarget(cs, importMap, registry, scopes, currentPackage) ==
    IF cs.ObjectName # "" /\ cs.ObjectName \in DOMAIN importMap.Imports
    THEN LET path == importMap.Imports[cs.ObjectName]
         IN  Target(path \o <<".">> \o <<cs.FunctionName>>, TRUE,
                    /\ registry.StdlibLoader # Nil
                    /\ ValidateStdlibImport(registry.StdlibLoader, path))
    ELSE IF cs.ObjectName # ""
         THEN IF inferTypeFromVariable(cs.ObjectName, cs.CallerFQN, scopes) # Nil
              THEN Target(inferTypeFromVariable(cs.ObjectName, cs.CallerFQN, scopes).TypeFQN
                              \o <<".">> \o <<cs.FunctionName>>, TRUE, FALSE)
              ELSE Target(EmptyString, FALSE, FALSE)
    ELSE IF cs.FunctionName \in GoBuiltins
         THEN Target(<<"builtin", ".", cs.FunctionName>>, TRUE, FALSE)
    ELSE Target(currentPackage \o <<".">> \o <<cs.FunctionName>>, TRUE, FALSE)

\* the CallSite the builder records under the caller
CallSite(cs, target) ==
    [Target |-> cs.FunctionName, ObjectName |-> cs.ObjectName,
     TargetFQN |-> target.targetFQN, Resolved |-> target.resolved,
     IsStdlib |-> target.isStdlib]

\* the builder's loop over the call sites of the code graph, from index i
RECURSIVE BuildCallSites(_, _, _, _, _, _, _)
BuildCallSites(sites, i, callSites, importMap, registry, scopes, currentPackage) ==
    IF i > Len(sites) THEN callSites
    ELSE LET cs == sites[i]
             site == CallSite(cs, resolveGoCallTarget(cs, importMap, registry,
                                                      scopes, currentPackage))
         IN  BuildCallSites(sites, i + 1,
                 MapPut(callSites, cs.CallerFQN,
                        Append(MapGet(callSites, cs.CallerFQN, <<>>), site)),
                 importMap, registry, scopes, currentPackage)

\* BuildGoCallGraph: the call sites of the resulting graph
BuildGoCallGraph(sites, registry, scopes, importMap, currentPackage) ==
    BuildCallSites(sites, 1, EmptyMap, importMap, registry, scopes, currentPackage)

\* import "fmt"; import "net/http"; import "github.com/gin-gonic/gin"
BuilderImportMap ==
    [Imports |-> ("fmt" :> <<"fmt">>) @@ ("http" :> <<"net/http">>) @@
                 ("gin" :> <<"github", ".", "com/gin-gonic/gin">>)]

\* the calls the functions main and helper of package test can make
CallSiteInputs ==
    {CallSiteInternal(<<"test", ".", c>>, o, f) :
        c \in {"main", "helper"},
        o \in {"", "fmt", "http", "gin", "resp", "unknown"},
        f \in {"Println", "append", "Close"}}

CodeGraphs == UNION {[1..n -> CallSiteInputs] : n \in 1..MaxCallSites}

\* Pass 2b left main with resp bound to net/http.Response
CallInit ==
    /\ mode = "call"
    /\ \E loader \in {Nil, StdlibManifest} :
          reg = Registry(<<"test">>, <<"1", ".", "21">>,
                         ("/test" :> <<"test">>), (<<"test">> :> "/test"), loader)
    /\ engineHasRegistry = TRUE
    /\ ReturnTypes = EmptyMap
    /\ Scopes = BindInScope(EmptyMap, <<"test", ".", "main">>,
                    [VarName |-> "resp",
                     Type |-> TypeInfo(<<"net/http", ".", "Response">>, 100, "stdlib"),
                     AssignedFrom |-> "http.Get(url)",
                     Location |-> [File |-> FilePath("/test", "main.go"), Line |-> 6]])
    /\ CallSites = EmptyMap
    /\ NormIdle
    /\ ScopeIdle
    /\ QueryIdle
    /\ Pass2bIdle
    /\ VersionIdle
    /\ RegistryIdle
    /\ ImportIdle
    /\ MoreIdle

BuildGoCallGraphCall(sites) ==
    /\ mode = "call"
    /\ CallSites = EmptyMap
    /\ CallSites' = BuildGoCallGraph(sites, reg, Scopes, BuilderImportMap, <<"test">>)
    /\ UNCHANGED engineVars
    /\ UNCHANGED notCall

CallNext == \E sites \in CodeGraphs : BuildGoCallGraphCall(sites)

SpecCall == CallInit /\ [][CallNext]_vars

\* every recorded call site, whatever its caller
AllCallSites ==
    UNION {{CallSites[c][i] : i \in 1..Len(CallSites[c])} : c \in DOMAIN CallSites}

\* C1: a call site is tagged stdlib only if it was resolved through an import
\* alias whose path is among the packages of the registry's loader; with no
\* loader no call site is tagged; builtin and unresolved calls are never tagged.
C1_IsStdlibOnlyValidated ==
    \A site \in AllCallSites :
        /\ site.IsStdlib =>
              /\ site.Resolved
              /\ reg.StdlibLoader # Nil
              /\ site.ObjectName \in DOMAIN BuilderImportMap.Imports
              /\ BuilderImportMap.Imports[site.ObjectName] \in reg.StdlibLoader.packages
              /\ site.TargetFQN = BuilderImportMap.Imports[site.ObjectName]
                                      \o <<".">> \o <<site.Target>>
        /\ reg.StdlibLoader = Nil => ~site.IsStdlib
        /\ (site.ObjectName = "" /\ site.Target \in GoBuiltins) => ~site.IsStdlib
        /\ ~site.Resolved => ~site.IsStdlib

C1_Witness ==
    /\ mode = "call"
    /\ reg.StdlibLoader = Nil
    /\ \E site \in AllCallSites :
          /\ site.ObjectName = "fmt"
          /\ site.TargetFQN = <<"fmt", ".", "Println">>
          /\ site.Resolved
          /\ ~site.IsStdlib
    /\ \E site \in AllCallSites :
          /\ site.TargetFQN = <<"builtin", ".", "append">>
          /\ ~site.IsStdlib

\* a version in X.Y form: a major and a minor number and nothing else
IsMajorMinor(v) ==
    /\ Len(v) = 3
    /\ IsDigits(v[1])
    /\ v[2] = "."
    /\ IsDigits(v[3])

\* C11: every value DetectGoVersion returns is in X.Y form, whichever source
\* supplied it and whatever the files contain.
C11_DetectedIsMajorMinor ==
    (mode = "version" /\ versionPc = "detected") => IsMajorMinor(detected)

\* C13: a loader init fetches <baseURL>/go<V>/manifest.json, V being
\* reg.GoVersion without its patch component when reg.GoVersion is set (the
\* project's files then play no part) and DetectGoVersion's answer otherwise.
C13_ManifestURL ==
    (mode = "version" /\ initCalls > 0)
    => requested =
         <<stdlibRegistryBaseURL, "/go">>
         \o (IF regBefore.GoVersion = EmptyString
             THEN DetectGoVersion(project)
             ELSE FirstTwoComponents(regBefore.GoVersion))
         \o <<"/manifest.json">>

C13_Witness ==
    /\ mode = "version"
    /\ initCalls > 0
    /\ regBefore.GoVersion = <<"1", ".", "21", ".", "4">>
    /\ parseGoVersionFromFile(project.goMod) = <<"1", ".", "23">>
    /\ project.goVersionFile.exists
    /\ requested = <<stdlibRegistryBaseURL, "/go", "1", ".", "21", "/manifest.json">>

----------------------------------------------------------------------------
(* Module registry builder (resolution/go_imports.go).  Import paths and   *)
(* module paths are token sequences in which "/" and "." are tokens of     *)
(* their own: "github.com/example/testapp" is                              *)
(* <<"github", ".", "com", "/", "example", "/", "testapp">>.  A directory  *)
(* is the sequence of the names on its path.                               *)

\* strings.HasPrefix
HasPrefix(s, prefix) ==
    Len(s) >= Len(prefix) /\ SubSeq(s, 1, Len(prefix)) = prefix

\* the length of the run of non-whitespace tokens at the head of s
RECURSIVE FieldLen(_)
FieldLen(s) ==
    IF Len(s) = 0 \/ IsSpace(s[1]) THEN 0 ELSE 1 + FieldLen(Tail(s))

\* strings.Fields
RECURSIVE Fields(_)
Fields(s) ==
    IF Len(s) = 0 THEN <<>>
    ELSE IF IsSpace(s[1]) THEN Fields(Tail(s))
    ELSE <<SubSeq(s, 1, FieldLen(s))>>
             \o Fields(SubSeq(s, FieldLen(s) + 1, Len(s)))

\* go.mod as os.ReadFile finds it: "missing", "unreadable" or "ok" with data
Manifest(status, data) == [status |-> status, data |-> data]

\* the loop of parseGoMod over the lines of go.mod, from index i
RECURSIVE ParseGoModLines(_, _, _, _)
ParseGoModLines(lines, i, modulePath, goVersion) ==
    IF i > Len(lines) THEN [modulePath |-> modulePath, goVersion |-> goVersion]
    ELSE LET line == TrimSpace(lines[i])
             parts == Fields(line)
             m == IF HasPrefix(line, <<"module", " ">>) /\ Len(parts) >= 2
                  THEN parts[2] ELSE modulePath
             g == IF HasPrefix(line, <<"go", " ">>) /\ Len(parts) >= 2
                  THEN parts[2] ELSE goVersion
         IN  ParseGoModLines(lines, i + 1, m, g)

\* a plausible slip: a go.mod without module declaration is accepted
parseGoModNoModuleCheck(root) ==
    IF root.goMod.status # "ok"
    THEN [modulePath |-> EmptyString, goVersion |-> EmptyString, err |-> TRUE]
    ELSE LET parsed == ParseGoModLines(Split(root.goMod.data, "\n"), 1,
                                       EmptyString, EmptyString)
         IN  [modulePath |-> parsed.modulePath, goVersion |-> parsed.goVersion,
              err |-> FALSE]

\* parseGoMod: (modulePath, goVersion, err)
parseGoMod(root) ==
    IF root.goMod.status # "ok"
    THEN [modulePath |-> EmptyString, goVersion |-> EmptyString, err |-> TRUE]
    ELSE LET parsed == ParseGoModLines(Split(root.goMod.data, "\n"), 1,
                                       EmptyString, EmptyString)
         IN  IF parsed.modulePath = EmptyString
             THEN [modulePath |-> EmptyString, goVersion |-> EmptyString,
                   err |-> TRUE]
             ELSE [modulePath |-> parsed.modulePath,
                   goVersion |-> parsed.goVersion, err |-> FALSE]

skipDirs ==
    {"vendor", "testdata", ".git", ".svn", ".hg", "node_modules", "dist",
     "build", "_build", ".vscode", ".idea", "tmp", "temp", "__pycache__",
     ".DS_Store"}

\* a plausible slip: vendor is missing from the exclusion set
shouldSkipGoDirectoryNoVendor(dirName) == dirName \in skipDirs \ {"vendor"}

\* shouldSkipGoDirectory
shouldSkipGoDirectory(dirName) == dirName \in skipDirs

\* filepath.Abs(projectRoot), and the path of the directory rel below it
AbsRoot(root) == <<"srv", root.rootName>>
AbsPath(root, rel) == AbsRoot(root) \o rel

\* info.Name()
BaseName(path) == path[Len(path)]

\* filepath.ToSlash(relPath): the names of rel joined by "/"
RECURSIVE ToSlash(_)
ToSlash(rel) ==
    IF Len(rel) = 0 THEN <<>>
    ELSE IF Len(rel) = 1 THEN <<rel[1]>>
    ELSE <<rel[1], "/">> \o ToSlash(Tail(rel))

\* the outcome of one call of the walk function
WalkResult(registry, ret) == [registry |-> registry, ret |-> ret]

\* a plausible slip: the import path is built from the directory's own name
RegisterDirectoryByName(registry, root, rel, isDir, readErr) ==
    IF readErr THEN WalkResult(registry, "err")
    ELSE IF ~isDir THEN WalkResult(registry, "nil")
    ELSE IF shouldSkipGoDirectory(BaseName(AbsPath(root, rel)))
         THEN WalkResult(registry, "SkipDir")
    ELSE LET importOf == IF rel = <<>> THEN registry.ModulePath
                         ELSE registry.ModulePath \o <<"/", BaseName(rel)>>
         IN  WalkResult(
                 [registry EXCEPT
                     !.DirToImport = MapPut(@, AbsPath(root, rel), importOf),
                     !.ImportToDir = MapPut(@, importOf, AbsPath(root, rel))],
                 "nil")

\* the function BuildGoModuleRegistry hands to filepath.Walk
RegisterDirectory(registry, root, rel, isDir, readErr) ==
    IF readErr THEN WalkResult(registry, "err")
    ELSE IF ~isDir THEN WalkResult(registry, "nil")
    ELSE IF shouldSkipGoDirectory(BaseName(AbsPath(root, rel)))
         THEN WalkResult(registry, "SkipDir")
    ELSE LET importOf == IF rel = <<>> THEN registry.ModulePath
                         ELSE registry.ModulePath \o <<"/">> \o ToSlash(rel)
         IN  WalkResult(
                 [registry EXCEPT
                     !.DirToImport = MapPut(@, AbsPath(root, rel), importOf),
                     !.ImportToDir = MapPut(@, importOf, AbsPath(root, rel))],
                 "nil")

\* the names a directory listing can hold, in the order os.ReadDir sorts them
NameOrder == <<"go.mod", "handlers", "main.go", "vendor">>

\* readDirNames(path): the sorted names of the entries of the directory rel
ReadDirNames(root, rel) ==
    LET entries == root.dirs \cup root.files
        names == {e[Len(rel) + 1] : e \in {x \in entries : Len(x) = Len(rel) + 1 /\ HasPrefix(x, rel)}}
    IN  SelectSeq(NameOrder, LAMBDA n : n \in names)

\* filepath.walk: the function is called on the entry, then on its children
\* in sorted order; SkipDir from a directory skips that directory only, an
\* error (or SkipDir from a file) ends the walk of the enclosing directory
RECURSIVE walk(_, _, _)
RECURSIVE walkNames(_, _, _, _, _)
walk(registry, root, rel) ==
    IF rel # <<>> /\ rel \notin root.dirs
    THEN RegisterDirectory(registry, root, rel, FALSE, FALSE)
    ELSE LET readErr == rel \in root.unreadable
             called == RegisterDirectory(registry, root, rel, TRUE, readErr)
         IN  IF readErr \/ called.ret # "nil" THEN called
             ELSE walkNames(called.registry, root, rel, ReadDirNames(root, rel), 1)

walkNames(registry, root, rel, names, i) ==
    IF i > Len(names) THEN WalkResult(registry, "nil")
    ELSE LET child == rel \o <<names[i]>>
             walked == walk(registry, root, child)
         IN  IF walked.ret = "err" \/ (walked.ret = "SkipDir" /\ child \notin root.dirs)
             THEN walked
             ELSE walkNames(walked.registry, root, rel, names, i + 1)

\* (registry, err) as BuildGoModuleRegistry returns them
BuildResult(registry, err) == [registry |-> registry, err |-> err]

\* a plausible slip: the declared version is normalised before it is stored
BuildGoModuleRegistryNormalized(root) ==
    LET parsed == parseGoMod(root)
    IN  IF parsed.err THEN BuildResult(Nil, TRUE)
        ELSE LET registry == Registry(parsed.modulePath, normalizeGoVersion(parsed.goVersion), EmptyMap, EmptyMap, Nil)
                 walked == walk(registry, root, <<>>)
             IN  IF walked.ret = "err" THEN BuildResult(Nil, TRUE)
                 ELSE BuildResult(walked.registry, FALSE)

\* BuildGoModuleRegistry
BuildGoModuleRegistry(root) ==
    LET parsed == parseGoMod(root)
    IN  IF parsed.err THEN BuildResult(Nil, TRUE)
        ELSE LET registry == Registry(parsed.modulePath, parsed.goVersion, EmptyMap, EmptyMap, Nil)
                 walked == walk(registry, root, <<>>)
             IN  IF walked.ret = "err" THEN BuildResult(Nil, TRUE)
                 ELSE BuildResult(walked.registry, FALSE)

\* directories nest at most this deep below the project root
MaxDepth == 2

RootNames == {"testapp", "build"}
DirNames == {"handlers", "vendor"}

TestModulePath == <<"github", ".", "com", "/", "example", "/", "testapp">>
ModuleLine == <<"module", " ">> \o TestModulePath \o <<"\n">>

Manifests ==
    { Manifest("missing", EmptyString),
      Manifest("unreadable", EmptyString),
      Manifest("ok", <<"go", " ", "1", ".", "21", "\n">>),
      Manifest("ok", ModuleLine),
      Manifest("ok", ModuleLine \o <<"\n", "go", " ", "1", ".", "21", "\n">>),
      Manifest("ok", ModuleLine \o <<"\n", "go", " ", "1", ".", "21", ".", "4", "\n">>) }

\* directory trees of depth at most d, each the set of its directories: any
\* of DirNames at the top, each with the same tree of depth d - 1 below it
RECURSIVE Forests(_)
Forests(d) ==
    IF d = 0 THEN {{}}
    ELSE { UNION {{<<n>>} \cup {<<n>> \o sub : sub \in below} : n \in top} :
             below \in Forests(d - 1), top \in SUBSET DirNames }

ProjectRoot(rootName, goMod, dirs, unreadable) ==
    [rootName |-> rootName, goMod |-> goMod, dirs |-> dirs,
     files |-> {<<"main.go">>} \cup (IF goMod.status = "missing" THEN {} ELSE {<<"go.mod">>}),
     unreadable |-> unreadable]

\* at most one directory of the tree cannot be listed
ProjectRoots ==
    UNION { { ProjectRoot(n, m, dirs, u) :
                n \in RootNames, m \in Manifests,
                u \in {{}} \cup {{d} : d \in dirs \cup {<<>>}} } :
            dirs \in Forests(MaxDepth) }

RegistryInit ==
    /\ mode = "registry"
    /\ projectRoot \in ProjectRoots
    /\ buildResult = Nil
    /\ NormIdle /\ ScopeIdle /\ EngineIdle /\ QueryIdle /\ Pass2bIdle
    /\ VersionIdle /\ CallIdle /\ ImportIdle
    /\ MoreIdle

BuildGoModuleRegistryCall ==
    /\ mode = "registry"
    /\ buildResult = Nil
    /\ buildResult' = BuildGoModuleRegistry(projectRoot)
    /\ UNCHANGED <<projectRoot, notRegistry>>

RegistryNext == BuildGoModuleRegistryCall

SpecRegistry == RegistryInit /\ [][RegistryNext]_vars

\* BuildGoModuleRegistry has returned / has returned a registry
Built == mode = "registry" /\ buildResult # Nil
Succeeded == Built /\ ~buildResult.err

\* what the lines of a readable go.mod declare
Declared(goMod) ==
    IF goMod.status = "ok"
    THEN ParseGoModLines(Split(goMod.data, "\n"), 1, EmptyString, EmptyString)
    ELSE [modulePath |-> EmptyString, goVersion |-> EmptyString]

\* C12 as stated: after a successful build the registry's GoVersion is the declared
\* version cut to major.minor (go 1.21.4 gives 1.21, go 1.21 gives 1.21),
\* and empty when go.mod has no go directive.
C12_RegistryVersionMajorMinor ==
    Succeeded
    => buildResult.registry.GoVersion
         = FirstTwoComponents(Declared(projectRoot.goMod).goVersion)

\* the version written on the last go directive of go.mod, "" without one
LastGoDirective(goMod) ==
    LET lines == Split(goMod.data, "\n")
        directives == {i \in 1..Len(lines) :
                         /\ HasPrefix(TrimSpace(lines[i]), <<"go", " ">>)
                         /\ Len(Fields(lines[i])) >= 2}
    IN  IF directives = {} THEN EmptyString
        ELSE Fields(lines[CHOOSE i \in directives : \A j \in directives : j <= i])[2]

\* C12, amended: after a successful build the registry's GoVersion is the
\* version exactly as the go directive writes it, patch component included
\* (go 1.21.4 gives 1.21.4, go 1.21 gives 1.21), and empty without directive.
C12_RegistryVersionAsDeclared ==
    Succeeded
    => buildResult.registry.GoVersion = LastGoDirective(projectRoot.goMod)

\* a build over a go.mod that declares a version with a patch component
C12_Witness ==
    /\ Succeeded
    /\ LastGoDirective(projectRoot.goMod) = <<"1", ".", "21", ".", "4">>
    /\ buildResult.registry.GoVersion = <<"1", ".", "21", ".", "4">>

\* C14: after a successful build DirToImport and ImportToDir are inverses
\* of each other, and no two directories share an import path.
C14_MappingsInverse ==
    Succeeded
    => LET d2i == buildResult.registry.DirToImport
           i2d == buildResult.registry.ImportToDir
       IN  /\ \A d \in DOMAIN d2i : d2i[d] \in DOMAIN i2d /\ i2d[d2i[d]] = d
           /\ \A i \in DOMAIN i2d : i2d[i] \in DOMAIN d2i /\ d2i[i2d[i]] = i
           /\ \A d, e \in DOMAIN d2i : d2i[d] = d2i[e] => d = e

\* a build that registered a directory and a like-named directory inside it
C14_Witness ==
    /\ Succeeded
    /\ AbsPath(projectRoot, <<"handlers">>) \in DOMAIN buildResult.registry.DirToImport
    /\ AbsPath(projectRoot, <<"handlers", "handlers">>) \in DOMAIN buildResult.registry.DirToImport
    /\ Cardinality(DOMAIN buildResult.registry.ImportToDir) >= 3

\* C15: after a successful build, whatever the root directory is named, the
\* root is registered under the module path itself and every other
\* registered directory under modulePath + "/" + its slash-form relative path.
C15_RootIsModulePath ==
    Succeeded
    => LET d2i == buildResult.registry.DirToImport
           modulePath == buildResult.registry.ModulePath
       IN  /\ AbsRoot(projectRoot) \in DOMAIN d2i
           /\ d2i[AbsRoot(projectRoot)] = modulePath
           /\ \A rel \in projectRoot.dirs :
                AbsPath(projectRoot, rel) \in DOMAIN d2i
                => d2i[AbsPath(projectRoot, rel)] = modulePath \o <<"/">> \o ToSlash(rel)

\* the directory names the specification lists as excluded
ExcludedNames ==
    {"vendor", "testdata", ".git", ".svn", ".hg", "node_modules", "dist",
     "build", "_build", ".vscode", ".idea", "tmp", "temp", "__pycache__",
     ".DS_Store"}

\* the directory rel of the project is an excluded directory or lies below one
AtOrBelowExcluded(root, rel) ==
    \/ root.rootName \in ExcludedNames
    \/ \E i \in 1..Len(rel) : rel[i] \in ExcludedNames

\* C16: after a successful build a directory of the project is registered
\* exactly when it is neither an excluded directory nor below one.
C16_ExcludedSubtreesSkipped ==
    Succeeded
    => \A rel \in projectRoot.dirs \cup {<<>>} :
         AbsPath(projectRoot, rel) \in DOMAIN buildResult.registry.DirToImport
         <=> ~AtOrBelowExcluded(projectRoot, rel)

\* a build over a tree with a source directory below vendor and one beside it
C16_Witness ==
    /\ Succeeded
    /\ <<"vendor", "handlers">> \in projectRoot.dirs
    /\ AbsPath(projectRoot, <<"handlers">>) \in DOMAIN buildResult.registry.DirToImport
    /\ AbsPath(projectRoot, <<"vendor", "handlers">>) \notin DOMAIN buildResult.registry.DirToImport

\* C17: the build returns an error and no registry when go.mod is missing,
\* unreadable or without module declaration; a go.mod with a module
\* declaration and no go directive gives (every directory being listable) a
\* registry with that module path and an empty version.
C17_ManifestErrors ==
    Built
    => LET goMod == projectRoot.goMod
           declared == Declared(goMod)
       IN  /\ (goMod.status # "ok" \/ declared.modulePath = EmptyString)
              => (buildResult.err /\ buildResult.registry = Nil)
           /\ (declared.modulePath # EmptyString /\ declared.goVersion = EmptyString
                 /\ projectRoot.unreadable = {})
              => /\ ~buildResult.err
                 /\ buildResult.registry.ModulePath = declared.modulePath
                 /\ buildResult.registry.GoVersion = EmptyString

\* a readable go.mod that holds a go directive and no module declaration
C17_Witness ==
    /\ Built
    /\ projectRoot.goMod = Manifest("ok", <<"go", " ", "1", ".", "21", "\n">>)
    /\ buildResult.err
    /\ buildResult.registry = Nil

----------------------------------------------------------------------------
(* GoImportResolver (resolution/go_imports.go): import classification      *)

ImportUnknown == "ImportUnknown"
ImportStdlib == "ImportStdlib"
ImportThirdParty == "ImportThirdParty"
ImportLocal == "ImportLocal"

\* a plausible slip: the heuristic without its internal/ exception
isStdlibImportFallbackNoInternal(path) == ~Contains(path, ".")

\* isStdlibImportFallback: no "." in the path and not below internal/
isStdlibImportFallback(path) ==
    IF HasPrefix(path, <<"internal", "/">>) THEN FALSE
    ELSE ~Contains(path, ".")

\* GoImportResolver.isStdlibImport, registry being r.registry
isStdlibImport(registry, path) ==
    IF registry # Nil /\ registry.StdlibLoader # Nil
    THEN ValidateStdlibImport(registry.StdlibLoader, path)
    ELSE isStdlibImportFallback(path)

\* a plausible slip: the local rules are tested before the stdlib verdict
ClassifyImportLocalFirst(registry, path) ==
    IF HasPrefix(path, <<".">>) THEN ImportLocal
    ELSE IF registry # Nil /\ registry.ModulePath # EmptyString
            /\ HasPrefix(path, registry.ModulePath)
         THEN ImportLocal
    ELSE IF isStdlibImport(registry, path) THEN ImportStdlib
    ELSE ImportThirdParty

\* GoImportResolver.ClassifyImport
ClassifyImport(registry, path) ==
    IF isStdlibImport(registry, path) THEN ImportStdlib
    ELSE IF HasPrefix(path, <<".">>) THEN ImportLocal
    ELSE IF registry # Nil /\ registry.ModulePath # EmptyString
            /\ HasPrefix(path, registry.ModulePath)
         THEN ImportLocal
    ELSE ImportThirdParty

\* the manifest of the resolver tests: "os" is not among its packages
ImportLoader == Loader({<<"fmt">>, <<"net", "/", "http">>}, EmptyMap)

MyAppModulePath == <<"github", ".", "com", "/", "example", "/", "myapp">>

ImportModulePaths == {EmptyString, <<"myapp">>, MyAppModulePath}

ImportRegistries ==
    {Nil} \cup {Registry(m, <<"1", ".", "21">>, EmptyMap, EmptyMap, l) :
                   m \in ImportModulePaths, l \in {Nil, ImportLoader}}

ClassifiedImports ==
    { <<"fmt">>, <<"os">>, <<"net", "/", "http">>, <<"internal", "/", "foo">>,
      <<".">>, <<".", "/", "utils">>, <<".", ".", "/", "models">>,
      <<"github", ".", "com", "/", "gorilla", "/", "mux">>,
      <<"myapp">>, <<"myapp", "/", "handlers">>,
      MyAppModulePath, MyAppModulePath \o <<"/", "handlers">>,
      MyAppModulePath \o <<"-extra", "/", "x">>,
      <<"github", ".", "com", "/", "example", "/", "otherapp", "/", "handlers">> }

\* the calls of main in package test: fmt.Println, gin.Println, Println
ImportCallSiteInputs ==
    {CallSiteInternal(<<"test", ".", "main">>, o, "Println") : o \in {"", "fmt", "gin"}}

ImportCodeGraphs == [1..1 -> ImportCallSiteInputs] \cup [1..2 -> ImportCallSiteInputs]

ImportInit ==
    /\ mode = "import"
    /\ reg \in ImportRegistries
    /\ engineHasRegistry = FALSE
    /\ ReturnTypes = EmptyMap
    /\ Scopes = EmptyMap
    /\ NormIdle /\ ScopeIdle /\ QueryIdle /\ Pass2bIdle /\ VersionIdle
    /\ CallIdle /\ RegistryIdle /\ ImportIdle
    /\ MoreIdle

\* NewGoImportResolver(reg).ClassifyImport(p), with the stdlib verdict it used
ClassifyImportCall(p) ==
    /\ mode = "import"
    /\ lastImport' = p
    /\ lastClass' = ClassifyImport(reg, p)
    /\ lastIsStdlib' = isStdlibImport(reg, p)
    /\ UNCHANGED <<engineVars, CallSites, notImport>>

\* the call graph built over the same registry
ImportBuildGoCallGraphCall(sites) ==
    /\ mode = "import"
    /\ reg # Nil
    /\ CallSites = EmptyMap
    /\ CallSites' = BuildGoCallGraph(sites, reg, Scopes, BuilderImportMap, <<"test">>)
    /\ UNCHANGED <<engineVars, importVars, notImport>>

ImportNext ==
    \/ \E p \in ClassifiedImports : ClassifyImportCall(p)
    \/ \E sites \in ImportCodeGraphs : ImportBuildGoCallGraphCall(sites)

SpecImport == ImportInit /\ [][ImportNext]_vars

\* the resolver has classified an import / works with a loaded manifest
Classified == mode = "import" /\ lastClass # "none"
ResolverHasLoader == reg # Nil /\ reg.StdlibLoader # Nil

\* p begins with the whole of prefix
StartsWith(p, prefix) ==
    Len(p) >= Len(prefix) /\ \A i \in 1..Len(prefix) : p[i] = prefix[i]

\* the verdict of the heuristic: no "." anywhere and not below internal/
LooksLikeStdlib(p) ==
    /\ \A i \in 1..Len(p) : p[i] # "."
    /\ ~StartsWith(p, <<"internal", "/">>)

C19_FallbackHeuristic ==
    (mode = "import" /\ ~ResolverHasLoader)
    => /\ Classified => (lastIsStdlib <=> LooksLikeStdlib(lastImport))
       /\ \A site \in AllCallSites : ~site.IsStdlib

\* without loader "fmt" is stdlib for the classifier, and the call
\* fmt.Println of the graph built over the same registry is not tagged
C19_Witness ==
    /\ Classified
    /\ reg # Nil
    /\ reg.StdlibLoader = Nil
    /\ lastImport = <<"fmt">>
    /\ lastIsStdlib
    /\ lastClass = ImportStdlib
    /\ \E site \in AllCallSites :
          site.ObjectName = "fmt" /\ site.Resolved /\ ~site.IsStdlib

\* C20: for every registry with a non-empty module path M, with or without
\* loader, ClassifyImport returns local for M and for M + "/" + subpath.
C20_ModuleImportsAreLocal ==
    (Classified /\ reg # Nil /\ reg.ModulePath # EmptyString
       /\ (lastImport = reg.ModulePath
             \/ StartsWith(lastImport, reg.ModulePath \o <<"/">>)))
    => lastClass = ImportLocal

\* C21: ClassifyImport never returns local for a non-relative path of another
\* module: a path that is neither the module path M nor M + "/" + subpath is
\* stdlib or third-party, even when it begins with the characters of M.
C21_OtherModuleNeverLocal ==
    (Classified
       /\ ~StartsWith(lastImport, <<".">>)
       /\ ~(/\ reg # Nil
            /\ reg.ModulePath # EmptyString
            /\ (lastImport = reg.ModulePath
                  \/ StartsWith(lastImport, reg.ModulePath \o <<"/">>))))
    => lastClass \in {ImportStdlib, ImportThirdParty}

----------------------------------------------------------------------------
(* Call Graph Builder: edges, reverse edges and call sites.  The builder   *)
(* takes the call sites of the code graph one at a time, in no fixed order *)
(* across files.                                                           *)

CallGraph(edges, reverseEdges, callSites, functions) ==
    [Edges |-> edges, ReverseEdges |-> reverseEdges, CallSites |-> callSites,
     Functions |-> functions]

\* a plausible slip: the edge is added without its mirror
AddEdgeForwardOnly(graph, caller, callee) ==
    [graph EXCEPT !.Edges = MapPut(@, caller, Append(MapGet(@, caller, <<>>), callee))]

\* CallGraph.AddEdge: the edge caller -> callee and its mirror
AddEdge(graph, caller, callee) ==
    [graph EXCEPT
        !.Edges = MapPut(@, caller, Append(MapGet(@, caller, <<>>), callee)),
        !.ReverseEdges = MapPut(@, callee, Append(MapGet(@, callee, <<>>), caller))]

\* a plausible slip: an edge is emitted for an unresolved call site as well
RecordCallSiteAlwaysEdge(graph, cs, target) ==
    AddEdge([graph EXCEPT
                !.Functions = @ \cup {cs.CallerFQN},
                !.CallSites = MapPut(@, cs.CallerFQN,
                                  Append(MapGet(@, cs.CallerFQN, <<>>), CallSite(cs, target)))],
            cs.CallerFQN, target.targetFQN)

\* what one call site contributes: a node for its caller if newly seen, a
\* CallSite record under the caller and, when resolved, the edge and its mirror
RecordCallSite(graph, cs, target) ==
    LET recorded == [graph EXCEPT
                        !.Functions = @ \cup {cs.CallerFQN},
                        !.CallSites = MapPut(@, cs.CallerFQN,
                                          Append(MapGet(@, cs.CallerFQN, <<>>), CallSite(cs, target)))]
    IN  IF target.resolved THEN AddEdge(recorded, cs.CallerFQN, target.targetFQN)
        ELSE recorded

\* the calls main and helper of package test can make
GraphCallSiteInputs ==
    {CallSiteInternal(<<"test", ".", c>>, o, "Close") :
        c \in {"main", "helper"}, o \in {"", "fmt", "gin", "resp", "unknown"}}
    \cup {CallSiteInternal(<<"test", ".", "main">>, "", "append")}

GraphCodeGraphs == UNION {[1..n -> GraphCallSiteInputs] : n \in 1..MaxCallSites}

GraphInit ==
    /\ mode = "graph"
    /\ \E loader \in {Nil, StdlibManifest} :
          reg = Registry(<<"test">>, <<"1", ".", "21">>,
                         ("/test" :> <<"test">>), (<<"test">> :> "/test"), loader)
    /\ engineHasRegistry = TRUE
    /\ ReturnTypes = EmptyMap
    /\ Scopes = BindInScope(EmptyMap, <<"test", ".", "main">>,
                    [VarName |-> "resp",
                     Type |-> TypeInfo(<<"net/http", ".", "Response">>, 100, "stdlib"),
                     AssignedFrom |-> "http.Get(url)",
                     Location |-> [File |-> FilePath("/test", "main.go"), Line |-> 6]])
    /\ codeGraph \in GraphCodeGraphs
    /\ pending = 1..Len(codeGraph)
    /\ Edges = EmptyMap
    /\ ReverseEdges = EmptyMap
    /\ Functions = {}
    /\ CallSites = EmptyMap
    /\ NormIdle /\ ScopeIdle /\ QueryIdle /\ Pass2bIdle /\ VersionIdle
    /\ RegistryIdle /\ ImportIdle /\ ServerIdle /\ RhsIdle /\ WorkersIdle /\ CopyIdle

\* the builder processes the call site codeGraph[i]
ProcessCallSite(i) ==
    /\ mode = "graph"
    /\ i \in pending
    /\ LET cs == codeGraph[i]
           target == resolveGoCallTarget(cs, BuilderImportMap, reg, Scopes, <<"test">>)
           graph == RecordCallSite(CallGraph(Edges, ReverseEdges, CallSites, Functions), cs, target)
       IN  /\ Edges' = graph.Edges
           /\ ReverseEdges' = graph.ReverseEdges
           /\ CallSites' = graph.CallSites
           /\ Functions' = graph.Functions
    /\ pending' = pending \ {i}
    /\ UNCHANGED <<codeGraph, notGraph>>

GraphNext == \E i \in 1..MaxCallSites : ProcessCallSite(i)

SpecGraph == GraphInit /\ [][GraphNext]_vars

\* the elements of a list
Elements(list) == {list[i] : i \in 1..Len(list)}

\* every FQN that is a caller or a callee of some edge or mirror entry
EdgeFQNs ==
    DOMAIN Edges \cup DOMAIN ReverseEdges
    \cup UNION {Elements(Edges[a]) : a \in DOMAIN Edges}
    \cup UNION {Elements(ReverseEdges[b]) : b \in DOMAIN ReverseEdges}

\* C22: when the builder has processed every call site, in whatever order,
\* B occurs in edges[A] exactly when A occurs in reverseEdges[B].
C22_EdgesMirror ==
    (mode = "graph" /\ pending = {})
    => \A a, b \in EdgeFQNs :
         b \in Elements(MapGet(Edges, a, <<>>))
         <=> a \in Elements(MapGet(ReverseEdges, b, <<>>))

\* a finished graph in which two callers have an edge each
C22_Witness ==
    /\ mode = "graph"
    /\ pending = {}
    /\ Cardinality(DOMAIN Edges) = 2
    /\ \E b \in DOMAIN ReverseEdges : Cardinality(Elements(ReverseEdges[b])) = 2

\* the call codeGraph[i] has an operand that is neither an import alias nor
\* a variable of known type
Unresolvable(i) ==
    /\ codeGraph[i].ObjectName # ""
    /\ codeGraph[i].ObjectName \notin DOMAIN BuilderImportMap.Imports
    /\ inferTypeFromVariable(codeGraph[i].ObjectName, codeGraph[i].CallerFQN, Scopes) = Nil

\* C23: every resolved call site has its target in edges[caller] and its
\* caller in reverseEdges[target]; an unresolvable call is recorded with
\* resolved = false, empty targetFQN and isStdlib = false, and adds no edge.
C23_ResolvedHaveEdges ==
    mode = "graph"
    => /\ \A caller \in DOMAIN CallSites : \A site \in Elements(CallSites[caller]) :
            /\ site.Resolved
                 => /\ site.TargetFQN \in Elements(MapGet(Edges, caller, <<>>))
                    /\ caller \in Elements(MapGet(ReverseEdges, site.TargetFQN, <<>>))
            /\ ~site.Resolved => (site.TargetFQN = EmptyString /\ ~site.IsStdlib)
       /\ \A i \in (1..Len(codeGraph)) \ pending :
            Unresolvable(i)
            => \E site \in Elements(CallSites[codeGraph[i].CallerFQN]) :
                  /\ site.ObjectName = codeGraph[i].ObjectName
                  /\ site.Target = codeGraph[i].FunctionName
                  /\ ~site.Resolved
                  /\ site.TargetFQN = EmptyString
                  /\ ~site.IsStdlib
       /\ \A caller \in DOMAIN CallSites :
            Len(MapGet(Edges, caller, <<>>))
              = Cardinality({k \in 1..Len(CallSites[caller]) : CallSites[caller][k].Resolved})

\* main makes an unresolvable call and a resolved one
C23_Witness ==
    /\ mode = "graph"
    /\ pending = {}
    /\ \E i \in 1..Len(codeGraph) : Unresolvable(i)
    /\ \E site \in Elements(MapGet(CallSites, <<"test", ".", "main">>, <<>>)) :
          site.ObjectName = "unknown" /\ ~site.Resolved
    /\ Len(MapGet(Edges, <<"test", ".", "main">>, <<>>)) = 1

----------------------------------------------------------------------------
(* Query Server: get_callees and get_callers.  A JSON object is a function *)
(* from its keys to their values, so that the absence of a key can be      *)
(* told from a false value.                                                *)

\* core.CallSite as the server tests build it
ServerCallSite(target, targetFQN, resolved, isStdlib) ==
    [Target |-> target, ObjectName |-> "", TargetFQN |-> targetFQN,
     Resolved |-> resolved, IsStdlib |-> isStdlib]

\* a loaded manifest that also carries the signatures of its functions
ServerLoader(packages, functions, signatures) ==
    [packages |-> packages, functions |-> functions, signatures |-> signatures]

\* the non-blank entries of fn.Returns
NonBlankReturns(returns) == SelectSeq(returns, LAMBDA t : t # EmptyString)

\* Server.stdlibInfoForFQN: nil, or the stdlib_info object of the target
stdlibInfoForFQN(registry, fqn) ==
    IF registry = Nil \/ registry.StdlibLoader = Nil THEN Nil
    ELSE LET dotIdx == LastIndex(fqn, ".")
         IN  IF dotIdx <= 0 THEN Nil
             ELSE LET path == SubSeq(fqn, 1, dotIdx)
                      name == SubSeq(fqn, dotIdx + 2, Len(fqn))
                      loader == registry.StdlibLoader
                      info == ("package" :> path)
                  IN  IF ~ValidateStdlibImport(loader, path) THEN Nil
                      ELSE IF ~HasFunction(loader, path, name) THEN info
                      ELSE LET signed == info @@ ("signature" :> loader.signatures[<<path, name>>])
                               returns == NonBlankReturns(FunctionReturns(loader, path, name))
                           IN  IF Len(returns) > 0
                               THEN signed @@ ("return_types" :> returns)
                               ELSE signed

\* a plausible slip: stdlib_info is attached whatever the call site's flag
CalleeEntryInfoAlways(registry, cs) ==
    LET entry == ("target_fqn" :> cs.TargetFQN) @@ ("is_stdlib" :> cs.IsStdlib)
        info == stdlibInfoForFQN(registry, cs.TargetFQN)
    IN  IF info # Nil THEN entry @@ ("stdlib_info" :> info) ELSE entry

\* toolGetCallees: the entry of one call site of the queried function
CalleeEntry(registry, cs) ==
    LET entry == ("target_fqn" :> cs.TargetFQN) @@ ("is_stdlib" :> cs.IsStdlib)
        info == IF cs.IsStdlib THEN stdlibInfoForFQN(registry, cs.TargetFQN) ELSE Nil
    IN  IF info # Nil THEN entry @@ ("stdlib_info" :> info) ELSE entry

\* toolGetCallees: the callees of the function fqn
toolGetCallees(callSites, registry, fqn) ==
    LET sites == MapGet(callSites, fqn, <<>>)
    IN  [k \in 1..Len(sites) |-> CalleeEntry(registry, sites[k])]

\* the first call site of sites whose target is fqn, Nil without one
FirstCallSiteTo(sites, fqn) ==
    LET hits == {k \in 1..Len(sites) : sites[k].TargetFQN = fqn}
    IN  IF hits = {} THEN Nil
        ELSE sites[CHOOSE k \in hits : \A j \in hits : k <= j]

\* a plausible slip: the flag is written for every caller, true or false
CallerEntryAlwaysFlag(callSites, caller, fqn) ==
    LET cs == FirstCallSiteTo(MapGet(callSites, caller, <<>>), fqn)
    IN  IF cs = Nil THEN ("fqn" :> caller)
        ELSE ("fqn" :> caller) @@ ("is_stdlib" :> cs.IsStdlib)

\* toolGetCallers: the entry of one caller of the queried function
CallerEntry(callSites, caller, fqn) ==
    LET cs == FirstCallSiteTo(MapGet(callSites, caller, <<>>), fqn)
    IN  IF cs # Nil /\ cs.IsStdlib
        THEN ("fqn" :> caller) @@ ("is_stdlib" :> TRUE)
        ELSE ("fqn" :> caller)

\* toolGetCallers: the callers of the function fqn
toolGetCallers(callSites, reverseEdges, fqn) ==
    LET callers == MapGet(reverseEdges, fqn, <<>>)
    IN  [k \in 1..Len(callers) |-> CallerEntry(callSites, callers[k], fqn)]

HandleFQN == <<"myapp", ".", "handler", ".", "Handle">>
HelperFQN == <<"myapp", ".", "util", ".", "Helper">>
GinContextFQN == <<"github", ".", "com/gin-gonic/gin", ".", "Context">>

\* the manifest of the server tests: Get, Println (no returns) and Open
\* (a blank return type); fmt.NonExistent is not in it
ServerManifest ==
    ServerLoader({<<"net/http">>, <<"fmt">>, <<"os">>},
        (<<<<"net/http">>, <<"Get">>>> :> << <<"*", "Response">>, <<"error">> >>) @@
        (<<<<"fmt">>, <<"Println">>>>  :> << >>) @@
        (<<<<"os">>, <<"Open">>>>      :> << <<"*", "File">>, EmptyString >>),
        (<<<<"net/http">>, <<"Get">>>> :> "func Get(url string) (resp *Response, err error)") @@
        (<<<<"fmt">>, <<"Println">>>>  :> "func Println(a ...any) (n int, err error)") @@
        (<<<<"os">>, <<"Open">>>>      :> "func Open(name string) (*File, error)"))

\* the call sites a hand-built graph can hold, flags set either way
ServerSites ==
    { ServerCallSite("Get", <<"net/http", ".", "Get">>, TRUE, TRUE),
      ServerCallSite("Get", <<"net/http", ".", "Get">>, TRUE, FALSE),
      ServerCallSite("Helper", HelperFQN, TRUE, FALSE),
      ServerCallSite("Helper", HelperFQN, TRUE, TRUE),
      ServerCallSite("Println", <<"fmt", ".", "Println">>, TRUE, TRUE),
      ServerCallSite("Open", <<"os", ".", "Open">>, TRUE, TRUE),
      ServerCallSite("NonExistent", <<"fmt", ".", "NonExistent">>, TRUE, TRUE),
      ServerCallSite("Context", GinContextFQN, TRUE, TRUE),
      ServerCallSite("noDot", <<"noDot">>, TRUE, TRUE),
      ServerCallSite("Foo", EmptyString, FALSE, FALSE) }

\* Handle makes up to MaxCallSites calls, Helper one call of Get
ServerCallSiteMaps ==
    { (HandleFQN :> handle) @@ (HelperFQN :> <<helper>>) :
        handle \in UNION {[1..n -> ServerSites] : n \in 1..MaxCallSites},
        helper \in {ServerCallSite("Get", <<"net/http", ".", "Get">>, TRUE, b) : b \in BOOLEAN} }

ServerTargets == {site.TargetFQN : site \in {x \in ServerSites : x.Resolved}}

\* the callers that have a resolved call site to fqn, Handle first
CallersOf(callSites, fqn) ==
    SelectSeq(<<HandleFQN, HelperFQN>>,
              LAMBDA c : \E k \in 1..Len(callSites[c]) :
                            callSites[c][k].Resolved /\ callSites[c][k].TargetFQN = fqn)

ServerRegistries ==
    {Nil} \cup {Registry(<<"myapp">>, <<"1", ".", "22">>, EmptyMap, EmptyMap, l) :
                   l \in {Nil, ServerManifest}}

\* NewServer(..., callGraph, ...) followed by SetGoContext(goVersion, reg)
ServerInit ==
    /\ mode = "server"
    /\ reg \in ServerRegistries
    /\ engineHasRegistry = FALSE
    /\ ReturnTypes = EmptyMap
    /\ Scopes = EmptyMap
    /\ CallSites \in ServerCallSiteMaps
    /\ ReverseEdges = [fqn \in {t \in ServerTargets : Len(CallersOf(CallSites, t)) > 0}
                         |-> CallersOf(CallSites, fqn)]
    /\ Edges = [c \in {HandleFQN, HelperFQN} |->
                  LET resolved == SelectSeq(CallSites[c], LAMBDA x : x.Resolved)
                  IN  [k \in 1..Len(resolved) |-> resolved[k].TargetFQN]]
    /\ Functions = {HandleFQN, HelperFQN}
    /\ codeGraph = <<>>
    /\ pending = {}
    /\ NormIdle /\ ScopeIdle /\ QueryIdle /\ Pass2bIdle /\ VersionIdle
    /\ RegistryIdle /\ ImportIdle /\ ServerIdle /\ RhsIdle /\ WorkersIdle /\ CopyIdle

\* tools/call get_callees(function)
ToolGetCalleesCall(fqn) ==
    /\ mode = "server"
    /\ lastTool' = "get_callees"
    /\ lastFunction' = fqn
    /\ response' = toolGetCallees(CallSites, reg, fqn)
    /\ UNCHANGED notServer

\* tools/call get_callers(function)
ToolGetCallersCall(fqn) ==
    /\ mode = "server"
    /\ lastTool' = "get_callers"
    /\ lastFunction' = fqn
    /\ response' = toolGetCallers(CallSites, ReverseEdges, fqn)
    /\ UNCHANGED notServer

ServerNext ==
    \/ \E fqn \in {HandleFQN, HelperFQN} : ToolGetCalleesCall(fqn)
    \/ \E fqn \in ServerTargets : ToolGetCallersCall(fqn)

SpecServer == ServerInit /\ [][ServerNext]_vars

\* the server has a registry whose loader validates the package of fqn
LoaderKnowsPackageOf(fqn) ==
    /\ reg # Nil
    /\ reg.StdlibLoader # Nil
    /\ \E d \in 1..Len(fqn) :
          /\ fqn[d] = "."
          /\ \A j \in (d + 1)..Len(fqn) : fqn[j] # "."
          /\ SubSeq(fqn, 1, d - 1) \in reg.StdlibLoader.packages

\* C24: each get_callees entry carries is_stdlib, equal to the call site's
\* flag; stdlib_info is present exactly when that flag is true and the
\* server's loader validates the target's package; it names the package,
\* has the signature when the function is known, and lists only non-blank
\* return types, the key being omitted when there are none.
C24_CalleesStdlibInfo ==
    (mode = "server" /\ lastTool = "get_callees")
    => /\ Len(response) = Len(CallSites[lastFunction])
       /\ \A k \in 1..Len(response) :
            LET entry == response[k]
                site == CallSites[lastFunction][k]
            IN  /\ "is_stdlib" \in DOMAIN entry
                /\ entry["is_stdlib"] = site.IsStdlib
                /\ "stdlib_info" \in DOMAIN entry
                     <=> (site.IsStdlib /\ LoaderKnowsPackageOf(site.TargetFQN))
                /\ "stdlib_info" \in DOMAIN entry
                     => LET info == entry["stdlib_info"]
                            loader == reg.StdlibLoader
                            path == info["package"]
                            name == SubSeq(site.TargetFQN, Len(path) + 2, Len(site.TargetFQN))
                            known == <<path, name>> \in DOMAIN loader.functions
                        IN  /\ path \o <<".">> \o name = site.TargetFQN
                            /\ "signature" \in DOMAIN info <=> known
                            /\ "return_types" \in DOMAIN info
                                 <=> (known /\ \E i \in 1..Len(loader.functions[<<path, name>>]) :
                                                  loader.functions[<<path, name>>][i] # EmptyString)
                            /\ "return_types" \in DOMAIN info
                                 => /\ Len(info["return_types"]) > 0
                                    /\ \A i \in 1..Len(info["return_types"]) :
                                          /\ info["return_types"][i] # EmptyString
                                          /\ info["return_types"][i] \in Elements(loader.functions[<<path, name>>])

\* a response for Handle with an os.Open entry whose stdlib_info lists *File
\* alone, and an entry flagged stdlib that has no stdlib_info
C24_Witness ==
    /\ mode = "server"
    /\ lastTool = "get_callees"
    /\ lastFunction = HandleFQN
    /\ \E k \in 1..Len(response) :
          /\ "stdlib_info" \in DOMAIN response[k]
          /\ response[k]["stdlib_info"]["package"] = <<"os">>
          /\ response[k]["stdlib_info"]["return_types"] = << <<"*", "File">> >>
    /\ \E k \in 1..Len(response) :
          response[k]["is_stdlib"] /\ "stdlib_info" \notin DOMAIN response[k]

\* C25: a get_callers entry has the is_stdlib key exactly when the caller's
\* call site to the queried function has IsStdlib = true; for IsStdlib =
\* false the key is absent.
C25_CallersFlagOnlyWhenTrue ==
    (mode = "server" /\ lastTool = "get_callers")
    => /\ Len(response) = Len(MapGet(ReverseEdges, lastFunction, <<>>))
       /\ \A k \in 1..Len(response) :
            LET caller == ReverseEdges[lastFunction][k]
                hits == {j \in 1..Len(CallSites[caller]) :
                           CallSites[caller][j].TargetFQN = lastFunction}
                site == CallSites[caller][CHOOSE j \in hits : \A i \in hits : j <= i]
            IN  /\ response[k]["fqn"] = caller
                /\ "is_stdlib" \in DOMAIN response[k] <=> site.IsStdlib
                /\ "is_stdlib" \in DOMAIN response[k] => response[k]["is_stdlib"] = TRUE

\* two callers of net/http.Get, one tagged stdlib at its call site, one not
C25_Witness ==
    /\ mode = "server"
    /\ lastTool = "get_callers"
    /\ Len(response) = 2
    /\ "is_stdlib" \in DOMAIN response[1]
    /\ "is_stdlib" \notin DOMAIN response[2]

----------------------------------------------------------------------------
(* Pass 2b on multi-assignments and on right-hand-side calls               *)

\* statement shapes with several targets or a selector call, each at a line
\*   u, err := NewUser()
StmtMultiLocalCall(line) ==
    ShortVar(<<"u", "err">>, ExprList(<<Call(Ident("NewUser"))>>), "NewUser()", line)

\*   resp, err = http.Get(url)
StmtMultiStdlibCall(line) ==
    Assign(<<"resp", "err">>, ExprList(<<Call(Selector("http", "Get"))>>), "http.Get(url)", line)

\*   p, q := 1, "s"
StmtMultiLiterals(line) ==
    ShortVar(<<"p", "q">>, ExprList(<<Lit("int_literal"), Lit("interpreted_string_literal")>>), "1, \"s\"", line)

\*   a, b := u, 1
StmtMultiVariable(line) ==
    ShortVar(<<"a", "b">>, ExprList(<<Ident("u"), Lit("int_literal")>>), "u, 1", line)

\*   u, a = a, u
StmtSwap(line) ==
    Assign(<<"u", "a">>, ExprList(<<Ident("a"), Ident("u")>>), "a, u", line)

\*   v, _ := svc.NewUser()      (svc is a variable, not an import alias)
StmtMethodCall(line) ==
    ShortVar(<<"v", "_">>, ExprList(<<Call(Selector("svc", "NewUser"))>>), "svc.NewUser()", line)

\*   m, n := svc.Unknown()
StmtUnknownCall(line) ==
    ShortVar(<<"m", "n">>, ExprList(<<Call(Selector("svc", "Unknown"))>>), "svc.Unknown()", line)

RhsStatements(line) ==
    {StmtMultiLocalCall(line), StmtMultiStdlibCall(line), StmtMultiLiterals(line),
     StmtMultiVariable(line), StmtSwap(line), StmtMethodCall(line), StmtUnknownCall(line)}

RECURSIVE RhsBodies(_, _)
RhsBodies(n, firstLine) ==
    IF n = 0 THEN {<<>>}
    ELSE {<<st>> \o rest : st \in RhsStatements(firstLine), rest \in RhsBodies(n - 1, firstLine + 1)}

\* calls.go of package test declares func run() with up to MaxStmts statements
RhsFiles ==
    {[Path |-> FilePath("/test", "calls.go"), root |-> SourceFile(<<FuncDecl("run", body)>>)] :
        body \in UNION {RhsBodies(n, 10) : n \in 1..MaxStmts}}

\* ExtractGoVariableAssignments(file), the file being remembered
ExtractRhsFileCall(file) ==
    /\ mode = "pass2b"
    /\ extracted = {}
    /\ Scopes' = ExtractGoVariableAssignments(file, Scopes, reg, ProjectImportMap)
    /\ processed' = Append(processed, file.Path)
    /\ extracted' = extracted \cup {file}
    /\ UNCHANGED <<reg, engineHasRegistry, ReturnTypes>>
    /\ UNCHANGED notRhs

RhsNext == \E file \in RhsFiles : ExtractRhsFileCall(file)

SpecRhs == Pass2bInit /\ [][RhsNext]_vars

\* the function every statement of calls.go belongs to
RunFQN == Fqn(<<"test">>, "run")

\* the statements of the processed files
ExtractedStatements ==
    UNION {Elements(decl.children) : decl \in UNION {Elements(file.root.children) : file \in extracted}}

\* the bindings of variable v the engine holds from statement st
MadeBy(st, v) ==
    IF RunFQN \notin DOMAIN Scopes THEN {}
    ELSE {b \in Elements(GetAllBindings(Scopes[RunFQN], v)) :
             b.Location.Line = st.line /\ b.AssignedFrom = st.text}

\* the targets of a statement other than the blank identifier
NonBlankTargets(st) == Elements(st.left) \ {"_"}

\* the types statement st gave its non-blank targets
TypesFrom(st) == {b.Type : b \in UNION {MadeBy(st, v) : v \in NonBlankTargets(st)}}

\* C27: a multi-assignment gives every non-blank target one binding, all with
\* the same type (for a call of a registered function its first usable return
\* type, for an expression list the type of its first element), and gives no
\* target a binding when that type cannot be inferred.
C27_MultiAssignSameType ==
    \A st \in ExtractedStatements :
        /\ Cardinality(TypesFrom(st)) <= 1
        /\ \A v \in NonBlankTargets(st) :
              Cardinality(MadeBy(st, v)) = Cardinality(TypesFrom(st))
        /\ (st.text = "NewUser()")
              => TypesFrom(st) = {TypeInfo(<<"test", ".", "User">>, 95, "declaration")}
        /\ (st.text = "http.Get(url)")
              => {t.TypeFQN : t \in TypesFrom(st)} =
                    IF reg.StdlibLoader = Nil THEN {}
                    ELSE {<<"net/http", ".", "Response">>}
        /\ (st.text = "1, \"s\"")
              => TypesFrom(st) = {TypeInfo(<<"builtin", ".", "int">>, 100, "literal")}
        /\ (st.text = "svc.Unknown()") => TypesFrom(st) = {}
        /\ (st.text = "u, 1" /\ st.line = 10) => TypesFrom(st) = {}

\* u, err := NewUser() followed by a, b := u, 1: all four targets are bound
\* to test.User
C27_Witness ==
    /\ mode = "pass2b"
    /\ \E st \in ExtractedStatements : st = StmtMultiLocalCall(10)
    /\ \E st \in ExtractedStatements : st = StmtMultiVariable(11)
    /\ \A v \in {"u", "err"} : Cardinality(MadeBy(StmtMultiLocalCall(10), v)) = 1
    /\ \A v \in {"a", "b"} :
          \E b \in MadeBy(StmtMultiVariable(11), v) :
              b.Type = TypeInfo(<<"test", ".", "User">>, 95, "declaration")

\* C28 as stated: the call a.b() with a not an import alias is looked up under
\* the bare name b, so it never takes the return type registered for
\* <currentPackage>.b.
C28_BareMethodNameNotQualified ==
    \A st \in ExtractedStatements :
        (st.text = "svc.NewUser()")
           => ReturnTypes[Fqn(<<"test">>, "NewUser")] \notin TypesFrom(st)

----------------------------------------------------------------------------
(* Parallel per-file extraction: one worker per file, every worker calling *)
(* the shared engine.  Scopes and ReturnTypes hold pointers here: an       *)
(* address of heap, 0 for nil.                                             *)

\* bound on the number of engine tasks one file gives its worker
MaxTasks == 1

Workers == {1, 2}

\* the functions the file of worker w declares: every file of package test
\* may declare func init(); a.go declares run and b.go declares serve
WorkerFQNs(w) == {Fqn(<<"test">>, "init"), Fqn(<<"test">>, IF w = 1 THEN "run" ELSE "serve")}

\* a task: a binding for a variable of function fqn (Pass 2b), or the return
\* type of function fqn (Pass 2a)
BindTask(fqn) == [kind |-> "bind", fqn |-> fqn]
ReturnTask(fqn) == [kind |-> "ret", fqn |-> fqn]

WorkerTasks(w) ==
    {BindTask(f) : f \in WorkerFQNs(w)} \cup {ReturnTask(f) : f \in WorkerFQNs(w)}

RECURSIVE TaskLists(_, _)
TaskLists(w, n) ==
    IF n = 0 THEN {<<>>}
    ELSE {<<t>> \o rest : t \in WorkerTasks(w), rest \in TaskLists(w, n - 1)}

WorkerTaskLists(w) == UNION {TaskLists(w, n) : n \in 1..MaxTasks}

\* the binding worker w makes for its i-th task: x := 1 in its own file
WorkerBinding(w, i) ==
    [VarName |-> "x",
     Type |-> TypeInfo(<<"builtin", ".", "int">>, 100, "literal"),
     AssignedFrom |-> "1",
     Location |-> [File |-> FilePath("/test", IF w = 1 THEN "a.go" ELSE "b.go"),
                   Line |-> 10 + i]]

\* the return type worker w registers for its i-th task
WorkerTypeInfo(w, i) ==
    TypeInfo(<<"test", ".", IF w = 1 THEN "A" ELSE "B">>, 95, "declaration")

\* sync.RWMutex
Unlocked == [writer |-> 0, readers |-> {}]
RLock(m, w) == [m EXCEPT !.readers = @ \cup {w}]
RUnlock(m, w) == [m EXCEPT !.readers = @ \ {w}]
Lock(m, w) == [m EXCEPT !.writer = w]
Unlock(m, w) == [m EXCEPT !.writer = 0]

CurrentTask(w) == tasks[w][frame[w].i]

\* where a worker goes for a task, and after it
StartOf(task) == IF task.kind = "bind" THEN "GetScope" ELSE "AddReturnType"

AfterTask(w) ==
    IF frame[w].i < Len(tasks[w]) THEN StartOf(tasks[w][frame[w].i + 1]) ELSE "done"

NextFrame(w) ==
    IF frame[w].i < Len(tasks[w])
    THEN [i |-> frame[w].i + 1, scope |-> 0, read |-> <<>>]
    ELSE frame[w]

WorkersInit ==
    /\ mode = "workers"
    /\ reg = Registry(<<"test">>, EmptyString,
                      ("/test" :> <<"test">>), (<<"test">> :> "/test"), Nil)
    /\ engineHasRegistry = TRUE
    /\ ReturnTypes = EmptyMap
    /\ Scopes = EmptyMap
    /\ heap = <<>>
    /\ \E first \in WorkerTaskLists(1), second \in WorkerTaskLists(2) :
          tasks = (1 :> first) @@ (2 :> second)
    /\ pc = [w \in Workers |-> StartOf(tasks[w][1])]
    /\ frame = [w \in Workers |-> [i |-> 1, scope |-> 0, read |-> <<>>]]
    /\ scopeMutex = Unlocked
    /\ typeMutex = Unlocked
    /\ fatal = FALSE
    /\ processed = <<>>
    /\ NormIdle
    /\ ScopeIdle
    /\ QueryIdle
    /\ VersionIdle
    /\ CallIdle
    /\ RegistryIdle
    /\ ImportIdle
    /\ GraphIdle
    /\ ServerIdle
    /\ RhsIdle
    /\ CopyIdle

\* GetScope: e.scopeMutex.RLock()
GetScopeRLock(w) ==
    /\ mode = "workers" /\ ~fatal
    /\ pc[w] = "GetScope"
    /\ scopeMutex.writer = 0
    /\ scopeMutex' = RLock(scopeMutex, w)
    /\ pc' = [pc EXCEPT ![w] = "GetScope_read"]
    /\ UNCHANGED <<heap, frame, tasks, typeMutex, fatal, Scopes, ReturnTypes>>
    /\ UNCHANGED notWorkers

\* GetScope: return e.Scopes[functionFQN]
GetScopeRead(w) ==
    /\ mode = "workers" /\ ~fatal
    /\ pc[w] = "GetScope_read"
    /\ frame' = [frame EXCEPT ![w].scope = MapGet(Scopes, CurrentTask(w).fqn, 0)]
    /\ pc' = [pc EXCEPT ![w] = "GetScope_unlock"]
    /\ UNCHANGED <<heap, tasks, scopeMutex, typeMutex, fatal, Scopes, ReturnTypes>>
    /\ UNCHANGED notWorkers

\* GetScope: the deferred RUnlock; then the caller's "if scope == nil"
GetScopeRUnlock(w) ==
    /\ mode = "workers" /\ ~fatal
    /\ pc[w] = "GetScope_unlock"
    /\ scopeMutex' = RUnlock(scopeMutex, w)
    /\ pc' = [pc EXCEPT ![w] = IF frame[w].scope = 0 THEN "NewGoFunctionScope"
                                ELSE "AddVariable"]
    /\ UNCHANGED <<heap, frame, tasks, typeMutex, fatal, Scopes, ReturnTypes>>
    /\ UNCHANGED notWorkers

\* scope = resolution.NewGoFunctionScope(functionFQN)
NewGoFunctionScopeCall(w) ==
    /\ mode = "workers" /\ ~fatal
    /\ pc[w] = "NewGoFunctionScope"
    /\ heap' = Append(heap, NewGoFunctionScope(CurrentTask(w).fqn))
    /\ frame' = [frame EXCEPT ![w].scope = Len(heap) + 1]
    /\ pc' = [pc EXCEPT ![w] = "AddScope"]
    /\ UNCHANGED <<tasks, scopeMutex, typeMutex, fatal, Scopes, ReturnTypes>>
    /\ UNCHANGED notWorkers

\* AddScope: e.scopeMutex.Lock()
AddScopeLock(w) ==
    /\ mode = "workers" /\ ~fatal
    /\ pc[w] = "AddScope"
    /\ scopeMutex = Unlocked
    /\ scopeMutex' = Lock(scopeMutex, w)
    /\ pc' = [pc EXCEPT ![w] = "AddScope_write"]
    /\ UNCHANGED <<heap, frame, tasks, typeMutex, fatal, Scopes, ReturnTypes>>
    /\ UNCHANGED notWorkers

\* AddScope: e.Scopes[scope.FunctionFQN] = scope
AddScopeWrite(w) ==
    /\ mode = "workers" /\ ~fatal
    /\ pc[w] = "AddScope_write"
    /\ Scopes' = MapPut(Scopes, heap[frame[w].scope].FunctionFQN, frame[w].scope)
    /\ pc' = [pc EXCEPT ![w] = "AddScope_unlock"]
    /\ UNCHANGED <<heap, frame, tasks, scopeMutex, typeMutex, fatal, ReturnTypes>>
    /\ UNCHANGED notWorkers

\* AddScope: the deferred Unlock
AddScopeUnlock(w) ==
    /\ mode = "workers" /\ ~fatal
    /\ pc[w] = "AddScope_unlock"
    /\ scopeMutex' = Unlock(scopeMutex, w)
    /\ pc' = [pc EXCEPT ![w] = "AddVariable"]
    /\ UNCHANGED <<heap, frame, tasks, typeMutex, fatal, Scopes, ReturnTypes>>
    /\ UNCHANGED notWorkers

\* AddVariable: the read of s.Variables[binding.VarName] for append
AddVariableRead(w) ==
    /\ mode = "workers" /\ ~fatal
    /\ pc[w] = "AddVariable"
    /\ frame' = [frame EXCEPT ![w].read =
                    MapGet(heap[frame[w].scope].Variables, WorkerBinding(w, frame[w].i).VarName, <<>>)]
    /\ pc' = [pc EXCEPT ![w] = "AddVariable_write"]
    /\ UNCHANGED <<heap, tasks, scopeMutex, typeMutex, fatal, Scopes, ReturnTypes>>
    /\ UNCHANGED notWorkers

\* another worker is between the read and the write of AddVariable on the
\* scope worker w holds
RacesWith(w) ==
    {o \in Workers \ {w} : pc[o] = "AddVariable_write" /\ frame[o].scope = frame[w].scope}

\* AddVariable: the write of s.Variables[binding.VarName].  No lock is held;
\* when another worker is inside AddVariable on the same map the runtime may
\* detect the concurrent map write and throw, or the write goes through.
AddVariableWrite(w) ==
    /\ mode = "workers" /\ ~fatal
    /\ pc[w] = "AddVariable_write"
    /\ \E thrown \in IF RacesWith(w) = {} THEN {FALSE} ELSE BOOLEAN :
          /\ fatal' = thrown
          /\ heap' = IF thrown THEN heap
                     ELSE [heap EXCEPT ![frame[w].scope].Variables =
                              MapPut(@, WorkerBinding(w, frame[w].i).VarName,
                                     Append(frame[w].read, WorkerBinding(w, frame[w].i)))]
    /\ pc' = [pc EXCEPT ![w] = AfterTask(w)]
    /\ frame' = [frame EXCEPT ![w] = NextFrame(w)]
    /\ UNCHANGED <<tasks, scopeMutex, typeMutex, Scopes, ReturnTypes>>
    /\ UNCHANGED notWorkers

\* AddReturnType: e.typeMutex.Lock()
AddReturnTypeLock(w) ==
    /\ mode = "workers" /\ ~fatal
    /\ pc[w] = "AddReturnType"
    /\ typeMutex = Unlocked
    /\ typeMutex' = Lock(typeMutex, w)
    /\ pc' = [pc EXCEPT ![w] = "AddReturnType_write"]
    /\ UNCHANGED <<heap, frame, tasks, scopeMutex, fatal, Scopes, ReturnTypes>>
    /\ UNCHANGED notWorkers

\* AddReturnType: e.ReturnTypes[funcFQN] = typeInfo
AddReturnTypeWrite(w) ==
    /\ mode = "workers" /\ ~fatal
    /\ pc[w] = "AddReturnType_write"
    /\ heap' = Append(heap, WorkerTypeInfo(w, frame[w].i))
    /\ ReturnTypes' = MapPut(ReturnTypes, CurrentTask(w).fqn, Len(heap) + 1)
    /\ pc' = [pc EXCEPT ![w] = "AddReturnType_unlock"]
    /\ UNCHANGED <<frame, tasks, scopeMutex, typeMutex, fatal, Scopes>>
    /\ UNCHANGED notWorkers

\* AddReturnType: the deferred Unlock
AddReturnTypeUnlock(w) ==
    /\ mode = "workers" /\ ~fatal
    /\ pc[w] = "AddReturnType_unlock"
    /\ typeMutex' = Unlock(typeMutex, w)
    /\ pc' = [pc EXCEPT ![w] = AfterTask(w)]
    /\ frame' = [frame EXCEPT ![w] = NextFrame(w)]
    /\ UNCHANGED <<heap, tasks, scopeMutex, fatal, Scopes, ReturnTypes>>
    /\ UNCHANGED notWorkers

WorkersNext ==
    \E w \in Workers :
        \/ GetScopeRLock(w)
        \/ GetScopeRead(w)
        \/ GetScopeRUnlock(w)
        \/ NewGoFunctionScopeCall(w)
        \/ AddScopeLock(w)
        \/ AddScopeWrite(w)
        \/ AddScopeUnlock(w)
        \/ AddVariableRead(w)
        \/ AddVariableWrite(w)
        \/ AddReturnTypeLock(w)
        \/ AddReturnTypeWrite(w)
        \/ AddReturnTypeUnlock(w)

SpecWorkers == WorkersInit /\ [][WorkersNext]_vars

IsScope(object) == "FunctionFQN" \in DOMAIN object

AllDone == \A w \in Workers : pc[w] = "done"

\* the indices of the tasks of worker w of one kind
TasksOf(w, kind) == {i \in 1..Len(tasks[w]) : tasks[w][i].kind = kind}

\* every access to the Scopes and ReturnTypes tables is made under the lock
\* of the table: a reader holds the read lock and no writer is in, a writer
\* holds the write lock and no reader is in
TablesUnderLock ==
    \A w \in Workers :
        /\ pc[w] = "GetScope_read" => (w \in scopeMutex.readers /\ scopeMutex.writer = 0)
        /\ pc[w] = "AddScope_write" => scopeMutex = Lock(Unlocked, w)
        /\ pc[w] = "AddReturnType_write" => typeMutex = Lock(Unlocked, w)

\* no two workers are inside AddVariable on the same scope
ScopeBindingsExclusive ==
    \A w \in Workers : pc[w] = "AddVariable_write" => RacesWith(w) = {}

\* what was added under an FQN no other worker touched is in its table
DistinctRetained ==
    AllDone =>
        \A w \in Workers :
            /\ \A i \in TasksOf(w, "ret") :
                  (\A o \in Workers \ {w} : \A j \in TasksOf(o, "ret") :
                        tasks[o][j].fqn # tasks[w][i].fqn)
                  => /\ tasks[w][i].fqn \in DOMAIN ReturnTypes
                     /\ \E j \in TasksOf(w, "ret") :
                           heap[ReturnTypes[tasks[w][i].fqn]] = WorkerTypeInfo(w, j)
            /\ \A i \in TasksOf(w, "bind") :
                  /\ tasks[w][i].fqn \in DOMAIN Scopes
                  /\ heap[Scopes[tasks[w][i].fqn]].FunctionFQN = tasks[w][i].fqn

\* C26 as stated: during parallel extraction every read and write of the
\* engine's shared state, the Scopes table, the ReturnTypes table and the
\* binding lists inside each stored scope, is made under the corresponding
\* lock, so no two workers are in the same table or the same scope's bindings
\* at the same time, and additions under distinct FQNs are all retained.
C26_SharedStateUnderLock ==
    mode = "workers" =>
        /\ TablesUnderLock
        /\ ScopeBindingsExclusive
        /\ ~fatal
        /\ DistinctRetained

\* C30 as stated: no binding is lost to the get-or-create of a function scope:
\* a scope that holds bindings is never replaced in the table, and when all
\* workers are done the engine's scope of an FQN holds every binding added
\* for it.
C30_NoBindingLost ==
    mode = "workers" =>
        /\ \A a \in DOMAIN heap :
              (IsScope(heap[a]) /\ heap[a].Variables # EmptyMap)
              => /\ heap[a].FunctionFQN \in DOMAIN Scopes
                 /\ Scopes[heap[a].FunctionFQN] = a
        /\ (AllDone /\ ~fatal) =>
              \A w \in Workers : \A i \in TasksOf(w, "bind") :
                  /\ tasks[w][i].fqn \in DOMAIN Scopes
                  /\ WorkerBinding(w, i) \in
                        Elements(GetAllBindings(heap[Scopes[tasks[w][i].fqn]], "x"))

----------------------------------------------------------------------------
(* GetAllScopes and GetAllReturnTypes: the map handed out and what a       *)
(* caller can do through it.  Scopes and ReturnTypes hold pointers here.   *)

\* bound on the number of objects allocated in one behaviour
MaxObjects == 2

CopyFQNs == {Fqn(<<"test">>, "init"), RunFQN}

\* what the engine returns for every FQN: the objects behind its pointers
EngineView ==
    [scopes |-> [f \in DOMAIN Scopes |-> heap[Scopes[f]]],
     types |-> [f \in DOMAIN ReturnTypes |-> heap[ReturnTypes[f]]]]

\* the history after an engine operation that is expected to leave the engine as it was
Unchanging(op) == [view |-> snapshot.view, last |-> op]

CopyInit ==
    /\ mode = "copy"
    /\ reg = Registry(<<"test">>, EmptyString,
                      ("/test" :> <<"test">>), (<<"test">> :> "/test"), Nil)
    /\ engineHasRegistry = TRUE
    /\ ReturnTypes = EmptyMap
    /\ Scopes = EmptyMap
    /\ heap = <<>>
    /\ callerMap = [kind |-> "none", map |-> EmptyMap]
    /\ snapshot = [view |-> [scopes |-> EmptyMap, types |-> EmptyMap], last |-> "NewGoTypeInferenceEngine"]
    /\ pc = <<>>
    /\ frame = <<>>
    /\ tasks = <<>>
    /\ scopeMutex = Unlocked
    /\ typeMutex = Unlocked
    /\ fatal = FALSE
    /\ processed = <<>>
    /\ NormIdle
    /\ ScopeIdle
    /\ QueryIdle
    /\ VersionIdle
    /\ CallIdle
    /\ RegistryIdle
    /\ ImportIdle
    /\ GraphIdle
    /\ ServerIdle
    /\ RhsIdle

\* engine.AddScope(NewGoFunctionScope(fqn))
CopyAddScopeCall(fqn) ==
    /\ mode = "copy"
    /\ Len(heap) < MaxObjects
    /\ heap' = Append(heap, NewGoFunctionScope(fqn))
    /\ Scopes' = MapPut(Scopes, fqn, Len(heap) + 1)
    /\ UNCHANGED <<ReturnTypes, callerMap>>
    /\ snapshot' = [view |-> EngineView', last |-> "AddScope"]
    /\ UNCHANGED notCopy

\* engine.AddScope(nil): the nil test returns before anything is touched
CopyAddScopeNilCall ==
    /\ mode = "copy"
    /\ snapshot.last # "AddScope(nil)"
    /\ snapshot' = Unchanging("AddScope(nil)")
    /\ UNCHANGED <<heap, Scopes, ReturnTypes, callerMap>>
    /\ UNCHANGED notCopy

\* engine.AddReturnType(fqn, &core.TypeInfo{...})
CopyAddReturnTypeCall(fqn) ==
    /\ mode = "copy"
    /\ Len(heap) < MaxObjects
    /\ heap' = Append(heap, TypeInfo(<<"test", ".", "User">>, 95, "declaration"))
    /\ ReturnTypes' = MapPut(ReturnTypes, fqn, Len(heap) + 1)
    /\ UNCHANGED <<Scopes, callerMap>>
    /\ snapshot' = [view |-> EngineView', last |-> "AddReturnType"]
    /\ UNCHANGED notCopy

\* engine.AddReturnType(fqn, nil)
CopyAddReturnTypeNilCall(fqn) ==
    /\ mode = "copy"
    /\ snapshot.last # "AddReturnType(nil)"
    /\ snapshot' = Unchanging("AddReturnType(nil)")
    /\ UNCHANGED <<heap, Scopes, ReturnTypes, callerMap>>
    /\ UNCHANGED notCopy

\* engine.GetScope(fqn).AddVariable(nil)
CopyAddVariableNilCall(fqn) ==
    /\ mode = "copy"
    /\ fqn \in DOMAIN Scopes
    /\ snapshot.last # "AddVariable(nil)"
    /\ heap' = [heap EXCEPT ![Scopes[fqn]] = AddVariable(@, Nil)]
    /\ snapshot' = Unchanging("AddVariable(nil)")
    /\ UNCHANGED <<Scopes, ReturnTypes, callerMap>>
    /\ UNCHANGED notCopy

\* maps.Copy(dst, src) into a fresh map: the keys of src with the same values
MapsCopy(src) == [k \in DOMAIN src |-> src[k]]

\* engine.GetAllScopes()
GetAllScopesCall ==
    /\ mode = "copy"
    /\ callerMap' = [kind |-> "scopes", map |-> MapsCopy(Scopes)]
    /\ snapshot' = Unchanging("GetAllScopes")
    /\ callerMap' # callerMap
    /\ UNCHANGED <<heap, Scopes, ReturnTypes>>
    /\ UNCHANGED notCopy

\* engine.GetAllReturnTypes()
GetAllReturnTypesCall ==
    /\ mode = "copy"
    /\ callerMap' = [kind |-> "types", map |-> MapsCopy(ReturnTypes)]
    /\ snapshot' = Unchanging("GetAllReturnTypes")
    /\ callerMap' # callerMap
    /\ UNCHANGED <<heap, Scopes, ReturnTypes>>
    /\ UNCHANGED notCopy

\* the caller stores an object of its own under a key of the returned map
CallerAddKey(fqn) ==
    /\ mode = "copy"
    /\ callerMap.kind # "none"
    /\ Len(heap) < MaxObjects
    /\ heap' = Append(heap, IF callerMap.kind = "scopes"
                            THEN NewGoFunctionScope(fqn)
                            ELSE TypeInfo(<<"builtin", ".", "int">>, 100, "literal"))
    /\ callerMap' = [callerMap EXCEPT !.map = MapPut(@, fqn, Len(heap) + 1)]
    /\ UNCHANGED <<Scopes, ReturnTypes, snapshot>>
    /\ UNCHANGED notCopy

\* the caller deletes a key of the returned map
CallerDeleteKey(fqn) ==
    /\ mode = "copy"
    /\ fqn \in DOMAIN callerMap.map
    /\ callerMap' = [callerMap EXCEPT !.map = [k \in DOMAIN @ \ {fqn} |-> @[k]]]
    /\ UNCHANGED <<heap, Scopes, ReturnTypes, snapshot>>
    /\ UNCHANGED notCopy

\* the binding a caller adds to a scope it reached through the returned map
CallerBinding ==
    [VarName |-> "x",
     Type |-> TypeInfo(<<"builtin", ".", "int">>, 100, "literal"),
     AssignedFrom |-> "1",
     Location |-> [File |-> FilePath("/test", "caller.go"), Line |-> 1]]

\* the caller mutates the object a value of the returned map points to:
\* scopes[fqn].AddVariable(binding), or types[fqn].TypeFQN = "changed"
CallerMutateValue(fqn) ==
    /\ mode = "copy"
    /\ fqn \in DOMAIN callerMap.map
    /\ heap' = [heap EXCEPT ![callerMap.map[fqn]] =
                   IF callerMap.kind = "scopes"
                   THEN AddVariable(@, CallerBinding)
                   ELSE [@ EXCEPT !.TypeFQN = <<"changed">>]]
    /\ heap' # heap
    /\ callerMap.kind = "scopes" => ~HasVariable(heap[callerMap.map[fqn]], "x")
    /\ UNCHANGED <<Scopes, ReturnTypes, callerMap, snapshot>>
    /\ UNCHANGED notCopy

CopyNext ==
    \/ \E fqn \in CopyFQNs : CopyAddScopeCall(fqn)
    \/ CopyAddScopeNilCall
    \/ \E fqn \in CopyFQNs : CopyAddReturnTypeCall(fqn)
    \/ \E fqn \in CopyFQNs : CopyAddReturnTypeNilCall(fqn)
    \/ \E fqn \in CopyFQNs : CopyAddVariableNilCall(fqn)
    \/ GetAllScopesCall
    \/ GetAllReturnTypesCall
    \/ \E fqn \in CopyFQNs : CallerAddKey(fqn)
    \/ \E fqn \in CopyFQNs : CallerDeleteKey(fqn)
    \/ \E fqn \in CopyFQNs : CallerMutateValue(fqn)

SpecCopy == CopyInit /\ [][CopyNext]_vars

\* adding and deleting keys of the returned map, and the calls with a nil
\* argument, leave what the engine returns as it was
CopyKeepsKeys ==
    mode = "copy" =>
        /\ DOMAIN EngineView.scopes = DOMAIN snapshot.view.scopes
        /\ DOMAIN EngineView.types = DOMAIN snapshot.view.types

\* C29 as stated: nothing a caller does through the map GetAllScopes or
\* GetAllReturnTypes returned, adding or deleting keys or mutating a scope or
\* TypeInfo reached through it, changes what the engine returns afterwards;
\* AddScope(nil), AddReturnType(fqn, nil) and AddVariable(nil) change nothing.
C29_CopyPreventsModification ==
    mode = "copy" => EngineView = snapshot.view

====
